---- MODULE Spec2Model ----
(***************************************************************************)
(* Model of the flexprice local load generator                             *)
(* (scripts/local/flexprice_ingest.py): the batch scheduler                *)
(* seed_events_clickhouse, the worker pool it submits to, and the poster   *)
(* post_event with its retry and backoff loop; and of the query monitor    *)
(* monitor_queries (scripts/local/clickhouse_query_load.py).               *)
(***************************************************************************)
EXTENDS Naturals, Integers, Sequences, FiniteSets, TLC

(* ------------------------------ bounds -------------------------------- *)
\* NUM_EVENTS, BATCH_SIZE and REQUESTS_PER_SEC are module level settings of
\* the script; the model draws them from 0..MaxEvents, 1..MaxBatch, 1..MaxPool.
MaxEvents == 2
MaxBatch == 2
MaxPool == 2
\* the monitor keeps the record of its last MaxCycles poll cycles
MaxCycles == 3
\* rows the ingestion API may add to the events table while the monitor runs
MaxRows == 1
\* generate_event is called up to MaxCalls times on indices 0..MaxIndex
MaxCalls == 3
MaxIndex == 4
\* dynamodb_replicate.py reads an export of 0, 250, ..., 250 * MaxQuarters rows
MaxQuarters == 16

(* ------------------------- program constants -------------------------- *)
MAX_RETRIES == 1
\* INITIAL_BACKOFF = 0.1 s, in milliseconds
INITIAL_BACKOFF == 100

\* Outcome of one requests.post call: an HTTP status, or EXC when the call
\* raises (connection error, timeout after 5 s).
EXC == 0
ACCEPTED == 202
Statuses == {200, 202, 400, 429, 500, 503}
Outcomes == Statuses \cup {EXC}

VARIABLES
    NUM_EVENTS,       \* total number of events of the run
    BATCH_SIZE,       \* events per batch
    REQUESTS_PER_SEC, \* max_workers of the ThreadPoolExecutor
    schedPc,          \* position of seed_events_clickhouse
    i,                \* loop variable of the batch loop
    batches,          \* the batches handed to executor.map so far, in order
    uuidCount,        \* number of uuid4() values drawn so far
    workQueue,        \* the executor's FIFO work queue (event indices)
    pc,               \* per event: position of its post_event invocation
    retries,          \* per event: local variable retries
    backoff,          \* per event: local variable backoff (ms)
    responses,        \* per event: outcomes of its attempts, in order
    sleeps,           \* per event: the backoff sleeps taken, in order (ms)
    result,           \* per event: return value of post_event
    log,              \* per event: log lines written by its post_event
    invocations,      \* per event: number of post_event calls begun on it
    sent,             \* per event: the JSON bodies of its requests, in order
    schedLog,         \* log lines written by seed_events_clickhouse
    pacing,           \* number of pacing sleeps begun
    monPc,            \* position of monitor_queries
    client,           \* the ClickHouse client of monitor_queries
    qIdx,             \* the next query of the current poll cycle (1..5)
    cycleLog,         \* log lines of the current poll cycle
    cycles,           \* the logs of the last finished poll cycles, oldest first
    monLog,           \* log lines monitor_queries wrote outside the loop
    store,            \* rows of the events table in ClickHouse
    genCalls,         \* generate_event calls made outside a run: index, event
    connects,         \* number of clickhouse_connect.get_client calls made
    modeArg,          \* the --mode argument main was started with
    sdkStep,          \* test_sdk.py: the step main runs next (0: not started)
    ids,              \* test_sdk.py: the test_* globals that are set
    lastCall,         \* test_sdk.py: what the last step did
    ddbPc,            \* dynamodb_replicate.py: position of the script
    csvRows,          \* dynamodb_replicate.py: len(data), the rows of the export
    ddbI,             \* dynamodb_replicate.py: loop variable i of the insert loop
    inserted,         \* dynamodb_replicate.py: the batches ClickHouse has stored
    ddbLog,           \* dynamodb_replicate.py: log lines written
    aioPc,            \* with-python-asyncio: position of main and of asyncio.run
    fut,              \* with-python-asyncio: state of the future of each submission
    task,             \* with-python-asyncio: state of each post_event_async task
    cb,               \* with-python-asyncio: what the SDK callback reported
    sched,            \* with-python-asyncio: fate of the scheduled completion
    loopQ,            \* with-python-asyncio: handles queued by call_soon_threadsafe
    loopOpen,         \* with-python-asyncio: the event loop is not closed
    queried           \* with-python-asyncio: events_get_async was issued

vars == <<NUM_EVENTS, BATCH_SIZE, REQUESTS_PER_SEC, schedPc, i, batches,
          uuidCount, workQueue, pc, retries, backoff, responses, sleeps,
          result, log, invocations, sent, schedLog, pacing, monPc, client, qIdx, cycleLog,
          cycles, monLog, store, genCalls, connects, modeArg,
          sdkStep, ids, lastCall, ddbPc, csvRows, ddbI, inserted, ddbLog,
          aioPc, fut, task, cb, sched, loopQ, loopOpen, queried>>

config == <<NUM_EVENTS, BATCH_SIZE, REQUESTS_PER_SEC, modeArg>>
schedVars == <<schedPc, i, batches, uuidCount, schedLog, pacing>>
postVars == <<retries, backoff, responses, sleeps, result, log, invocations,
              sent>>
monVars == <<monPc, client, qIdx, cycleLog, cycles, monLog, store, connects>>
ingestVars == <<modeArg, NUM_EVENTS, BATCH_SIZE, REQUESTS_PER_SEC, schedPc, i, batches,
                workQueue, pc, retries, backoff, responses, sleeps, result,
                log, invocations, sent, schedLog, pacing>>

\* the state of the scripts other than the load generator and the monitor
sdkVars == <<sdkStep, ids, lastCall>>
ddbVars == <<ddbPc, csvRows, ddbI, inserted, ddbLog>>
aioVars == <<aioPc, fut, task, cb, sched, loopQ, loopOpen, queried>>
toolVars == <<sdkVars, ddbVars, aioVars>>

NoCall == [fn |-> "none", called |-> FALSE, outcome |-> "none", missing |-> {}]

\* test_sdk.py is not running
SdkIdle ==
    /\ sdkStep = 0
    /\ ids = {}
    /\ lastCall = NoCall

\* dynamodb_replicate.py is not running
DdbIdle ==
    /\ ddbPc = "idle"
    /\ csvRows = 0
    /\ ddbI = 0
    /\ inserted = << >>
    /\ ddbLog = << >>

\* the two submissions e1 and e2 of the asyncio example
Subs == {1, 2}

\* the asyncio example is not running
AioIdle ==
    /\ aioPc = "idle"
    /\ fut = [s \in Subs |-> "none"]
    /\ task = [s \in Subs |-> "unstarted"]
    /\ cb = [s \in Subs |-> "none"]
    /\ sched = [s \in Subs |-> "none"]
    /\ loopQ = << >>
    /\ loopOpen = FALSE
    /\ queried = FALSE

ToolsIdle == SdkIdle /\ DdbIdle /\ AioIdle

Min(a, b) == IF a <= b THEN a ELSE b

Indices == 0 .. (NUM_EVENTS - 1)

(* --------------------------- generate_event --------------------------- *)
sources == <<"web", "mobile">>
event_types == <<"gpu_time">>

\* mutant: a field is taken from the state of the call, not from the index
generate_event_Stateful(index, uuid) ==
    [ event_id |-> uuid,
      event_name |-> event_types[(index % Len(event_types)) + 1],
      external_customer_id |-> "cus_loadtest_5",
      source |-> sources[(index % Len(sources)) + 1],
      properties |->
        [ bytes_transferred |-> 100 + (uuid % 1000),
          duration_ms |-> 50 + (index % 200),
          status_code |-> 200 + ((index % 3) * 100),
          test_group |-> <<"group_", index % 10>> ] ]

\* mutant: bytes_transferred wraps at 100
generate_event_Mod100(index, uuid) ==
    [ event_id |-> uuid,
      event_name |-> event_types[(index % Len(event_types)) + 1],
      external_customer_id |-> "cus_loadtest_5",
      source |-> sources[(index % Len(sources)) + 1],
      properties |->
        [ bytes_transferred |-> 100 + (index % 100),
          duration_ms |-> 50 + (index % 200),
          status_code |-> 200 + ((index % 3) * 100),
          test_group |-> <<"group_", index % 10>> ] ]

\* mutant: the identifier is derived from the index
generate_event_IdFromIndex(index, uuid) ==
    [ event_id |-> index,
      event_name |-> event_types[(index % Len(event_types)) + 1],
      external_customer_id |-> "cus_loadtest_5",
      source |-> sources[(index % Len(sources)) + 1],
      properties |->
        [ bytes_transferred |-> 100 + (index % 1000),
          duration_ms |-> 50 + (index % 200),
          status_code |-> 200 + ((index % 3) * 100),
          test_group |-> <<"group_", index % 10>> ] ]

\* generate_event(index); uuid stands for the value str(uuid4()) returns and
\* the pair <<"group_", n>> for the string f"group_{n}".
generate_event(index, uuid) ==
    [ event_id |-> uuid,
      event_name |-> event_types[(index % Len(event_types)) + 1],
      external_customer_id |-> "cus_loadtest_5",
      source |-> sources[(index % Len(sources)) + 1],
      properties |->
        [ bytes_transferred |-> 100 + (index % 1000),
          duration_ms |-> 50 + (index % 200),
          status_code |-> 200 + ((index % 3) * 100),
          test_group |-> <<"group_", index % 10>> ] ]

\* [generate_event(j) for j in range(lo, hi)], uuids drawn from base + 1 on;
\* each element is kept with the index it was generated from
RECURSIVE MakeBatch(_, _, _)
MakeBatch(lo, hi, base) ==
    IF lo >= hi THEN << >>
    ELSE <<[index |-> lo, event |-> generate_event(lo, base + 1)]>>
         \o MakeBatch(lo + 1, hi, base + 1)

(* ------------------------------- state -------------------------------- *)
\* monitor_queries is not running (main was started with --mode ingest)
MonitorIdle ==
    /\ monPc = "idle"
    /\ client = "none"
    /\ qIdx = 1
    /\ cycleLog = << >>
    /\ cycles = << >>
    /\ monLog = << >>
    /\ store = 0
    /\ connects = 0

Init ==
    /\ modeArg = "ingest"
    /\ MonitorIdle
    /\ genCalls = << >>
    /\ ToolsIdle
    /\ NUM_EVENTS \in 0 .. MaxEvents
    /\ BATCH_SIZE \in 1 .. MaxBatch
    /\ REQUESTS_PER_SEC \in 1 .. MaxPool
    /\ schedPc = "start"
    /\ i = 0
    /\ batches = << >>
    /\ uuidCount = 0
    /\ workQueue = << >>
    /\ pc = [e \in Indices |-> "new"]
    /\ retries = [e \in Indices |-> 0]
    /\ backoff = [e \in Indices |-> 0]
    /\ responses = [e \in Indices |-> << >>]
    /\ sleeps = [e \in Indices |-> << >>]
    /\ result = [e \in Indices |-> "none"]
    /\ log = [e \in Indices |-> << >>]
    /\ invocations = [e \in Indices |-> 0]
    /\ sent = [e \in Indices |-> << >>]
    /\ schedLog = << >>
    /\ pacing = 0

\* mutant: a failed invocation never gives its worker thread back
Running_FailedKeepsWorker ==
    {e \in Indices : pc[e] = "request" \/ result[e] = "False"}

\* post_event invocations a worker thread is executing
Running == {e \in Indices : pc[e] = "request"}
\* submissions handed to the pool that have not returned
Pending == {e \in Indices : pc[e] \in {"queued", "request"}}

(* ----------------------- seed_events_clickhouse ----------------------- *)
\* for i in range(0, NUM_EVENTS, BATCH_SIZE): with lo the next value of
\* range(), the loop body runs; when range() is exhausted the with block is
\* left, which calls executor.shutdown(wait=True)
LoopHead(lo) == IF lo < NUM_EVENTS THEN "loop" ELSE "shutdown"

\* logger.info("Starting event ingestion..."), entering the with block and
\* the for loop
Begin ==
    /\ schedPc = "start"
    /\ schedLog' = Append(schedLog, "Starting event ingestion...")
    /\ schedPc' = LoopHead(0)
    /\ UNCHANGED <<config, i, batches, uuidCount, workQueue, pc, postVars, pacing>>
    /\ UNCHANGED <<monVars, genCalls, toolVars>>

\* executor.map(post_event, batch): every event of the batch is submitted
\* to the pool at once; the result iterator is dropped, nothing is awaited.
Submit(batch) ==
    /\ workQueue' = workQueue \o [k \in 1 .. Len(batch) |-> batch[k].index]
    /\ pc' = [e \in Indices |->
                IF \E k \in 1 .. Len(batch) : batch[k].index = e
                THEN "queued" ELSE pc[e]]

\* mutant: the end of the batch is not clamped to NUM_EVENTS
BatchEnd_NoClamp(lo) == lo + BATCH_SIZE

\* range(i, min(i + BATCH_SIZE, NUM_EVENTS)): the end of the batch at lo
BatchEnd(lo) == Min(lo + BATCH_SIZE, NUM_EVENTS)

\* mutant: the loop advances by one index, not by one batch
NextStart_ByOne(lo) == lo + 1

\* range(0, NUM_EVENTS, BATCH_SIZE): the start index after lo
NextStart(lo) == lo + BATCH_SIZE

\* The values the scheduler reads from the iterator executor.map returns:
\* none, the iterator is dropped (line 107).
MapResultsRead == << >>

\* mutant: no pacing sleep after the last batch
PacingSleeps_SkipLast(lo) == IF BatchEnd(lo) >= NUM_EVENTS THEN 0 ELSE 1

\* time.sleep(1) at the end of the loop body: the number of pacing sleeps
\* that follow the batch starting at lo
PacingSleeps(lo) == 1

\* The loop body up to the pacing sleep (lines 106-108).
Dispatch ==
    /\ schedPc = "loop"
    /\ LET batch == MakeBatch(i, BatchEnd(i), uuidCount)
       IN /\ Submit(batch)
          /\ batches' = Append(batches, batch)
          /\ uuidCount' = uuidCount + Len(batch)
    /\ schedPc' = "sleep"
    /\ pacing' = pacing + PacingSleeps(i)
    /\ UNCHANGED <<config, i, postVars, schedLog, monVars, genCalls, toolVars>>

\* time.sleep(1) returns; range() yields the next start index or is exhausted
PacingDone ==
    /\ schedPc = "sleep"
    /\ i' = NextStart(i)
    /\ schedPc' = LoopHead(NextStart(i))
    /\ UNCHANGED <<config, batches, uuidCount, workQueue, pc, postVars,
                   schedLog, pacing, monVars, genCalls, toolVars>>

\* mutant: executor.shutdown(wait=False)
ShutdownNoWait == TRUE

\* leaving the with block calls executor.shutdown(wait=True), which returns
\* once the work queue is drained and every work item has returned
ShutdownReturns == Pending = {}

\* the with block is left and "Event ingestion completed" is logged
Finish ==
    /\ schedPc = "shutdown"
    /\ ShutdownReturns
    /\ schedLog' = Append(schedLog, "Event ingestion completed")
    /\ schedPc' = "done"
    /\ UNCHANGED <<config, i, batches, uuidCount, workQueue, pc, postVars, pacing>>
    /\ UNCHANGED <<monVars, genCalls, toolVars>>

(* ----------------------------- worker pool ---------------------------- *)
\* mutant: the pool starts a thread for every work item
WorkerFree_Unbounded == TRUE

\* the pool runs at most max_workers work items at a time
WorkerFree == Cardinality(Running) < REQUESTS_PER_SEC

(* ------------------------------ post_event ---------------------------- *)
\* mutant: while retries <= MAX_RETRIES + 1
LoopCond_OneMore(r) == r <= MAX_RETRIES + 1

\* mutant: while retries < MAX_RETRIES
LoopCond_OffByOne(r) == r < MAX_RETRIES

\* while retries <= MAX_RETRIES
LoopCond(r) == r <= MAX_RETRIES

\* response.status_code == 202
IsAccepted(s) == s = ACCEPTED
\* mutant: every status but 202 is retried
IsRetryable_Not202(s) == s /= ACCEPTED

\* mutant: every status from 400 on is retried
IsRetryable_From400(s) == s >= 400

\* response.status_code in [429, 500]
IsRetryable(s) == s \in {429, 500}

InfoLine(e) == [level |-> "INFO", msg |-> "Event ingested successfully", event |-> e, status |-> ACCEPTED]
UnexpectedLine(s) == [level |-> "ERROR", msg |-> "Unexpected status code", event |-> -1, status |-> s]
FailedLine == [level |-> "ERROR", msg |-> "Failed to post event", event |-> -1, status |-> EXC]

\* the argument of the post_event invocation on the work item of index e:
\* the element of the batch executor.map was called with
EventArg(e) ==
    LET items == UNION {{batches[k][j] : j \in 1 .. Len(batches[k])} :
                            k \in 1 .. Len(batches)}
    IN (CHOOSE w \in items : w.index = e).event

\* mutant: a retry posts the event under a new identifier
RequestBody_NewIdOnRetry(event, attempt) ==
    IF attempt = 0 THEN event ELSE [event EXCEPT !.event_id = 1000 * attempt + @]

\* payload = json.dumps(event); requests.post(..., data=payload): the body
\* of attempt number attempt (from 0) is the JSON text of the argument of
\* post_event, written here as the event it encodes
RequestBody(event, attempt) == event

\* A worker takes the oldest work item and runs post_event on it up to the
\* first requests.post (lines 68-78).
Start(e) ==
    /\ workQueue /= << >>
    /\ Head(workQueue) = e
    /\ WorkerFree
    /\ workQueue' = Tail(workQueue)
    /\ retries' = [retries EXCEPT ![e] = 0]
    /\ backoff' = [backoff EXCEPT ![e] = INITIAL_BACKOFF]
    /\ pc' = [pc EXCEPT ![e] = "request"]
    /\ invocations' = [invocations EXCEPT ![e] = @ + 1]
    /\ sent' = [sent EXCEPT ![e] = Append(@, RequestBody(EventArg(e), 0))]
    /\ UNCHANGED <<config, schedVars, responses, sleeps, result, log, monVars, genCalls, toolVars>>

\* mutant: the backoff is not doubled
NextBackoff_Constant(b) == b

\* backoff *= 2
NextBackoff(b) == b * 2

\* mutant: no sleep once the retry budget is used up
Backoff_NoFinalSleep(e) ==
    /\ retries' = [retries EXCEPT ![e] = @ + 1]
    /\ IF LoopCond(retries[e] + 1)
       THEN /\ sleeps' = [sleeps EXCEPT ![e] = Append(@, backoff[e])]
            /\ backoff' = [backoff EXCEPT ![e] = NextBackoff(@)]
            /\ pc' = [pc EXCEPT ![e] = "request"]
            /\ sent' = [sent EXCEPT ![e] =
                            Append(@, RequestBody(EventArg(e), retries[e] + 1))]
            /\ UNCHANGED result
       ELSE /\ pc' = [pc EXCEPT ![e] = "returned"]
            /\ result' = [result EXCEPT ![e] = "False"]
            /\ UNCHANGED <<sleeps, backoff, sent>>

\* mutant: retries is one counter shared by all invocations
Backoff_SharedRetries(e) ==
    /\ retries' = [x \in Indices |-> retries[x] + 1]
    /\ sleeps' = [sleeps EXCEPT ![e] = Append(@, backoff[e])]
    /\ backoff' = [backoff EXCEPT ![e] = NextBackoff(@)]
    /\ IF LoopCond(retries[e] + 1)
       THEN /\ pc' = [pc EXCEPT ![e] = "request"]
            /\ sent' = [sent EXCEPT ![e] =
                            Append(@, RequestBody(EventArg(e), retries[e] + 1))]
            /\ UNCHANGED result
       ELSE /\ pc' = [pc EXCEPT ![e] = "returned"]
            /\ result' = [result EXCEPT ![e] = "False"]
            /\ UNCHANGED sent

\* retries += 1; time.sleep(backoff); backoff *= 2; then the loop condition
\* is tested: the next requests.post is issued with the same event, or
\* post_event returns False (lines 84-87, 93-96, 75, 78)
Backoff(e) ==
    /\ retries' = [retries EXCEPT ![e] = @ + 1]
    /\ sleeps' = [sleeps EXCEPT ![e] = Append(@, backoff[e])]
    /\ backoff' = [backoff EXCEPT ![e] = NextBackoff(@)]
    /\ IF LoopCond(retries[e] + 1)
       THEN /\ pc' = [pc EXCEPT ![e] = "request"]
            /\ sent' = [sent EXCEPT ![e] =
                            Append(@, RequestBody(EventArg(e), retries[e] + 1))]
            /\ UNCHANGED result
       ELSE /\ pc' = [pc EXCEPT ![e] = "returned"]
            /\ result' = [result EXCEPT ![e] = "False"]
            /\ UNCHANGED sent

\* return value (True / False) of a response branch that leaves the loop
Return(e, value) ==
    /\ result' = [result EXCEPT ![e] = value]
    /\ pc' = [pc EXCEPT ![e] = "returned"]
    /\ UNCHANGED <<retries, backoff, sleeps, sent>>

\* mutant: after an exception the delay is INITIAL_BACKOFF and the backoff
\* is not doubled
ExceptBranch_FixedDelay(e) ==
    /\ log' = [log EXCEPT ![e] = Append(@, FailedLine)]
    /\ retries' = [retries EXCEPT ![e] = @ + 1]
    /\ sleeps' = [sleeps EXCEPT ![e] = Append(@, INITIAL_BACKOFF)]
    /\ UNCHANGED backoff
    /\ IF LoopCond(retries[e] + 1)
       THEN /\ pc' = [pc EXCEPT ![e] = "request"]
            /\ sent' = [sent EXCEPT ![e] =
                            Append(@, RequestBody(EventArg(e), retries[e] + 1))]
            /\ UNCHANGED result
       ELSE /\ pc' = [pc EXCEPT ![e] = "returned"]
            /\ result' = [result EXCEPT ![e] = "False"]
            /\ UNCHANGED sent

\* mutant: the exception is not caught and leaves post_event
ExceptBranch_Propagates(e) ==
    /\ UNCHANGED log
    /\ Return(e, "raised")

\* except Exception as e: logger.error, retries += 1, sleep, backoff *= 2
\* (lines 91-95)
ExceptBranch(e) ==
    /\ log' = [log EXCEPT ![e] = Append(@, FailedLine)]
    /\ Backoff(e)

\* requests.post returns status s or raises (s = EXC), and the worker runs
\* the rest of the loop iteration (lines 78-95) up to the next requests.post
\* or the return
Respond(e, s) ==
    /\ pc[e] = "request"
    /\ responses' = [responses EXCEPT ![e] = Append(@, s)]
    /\ IF s = EXC
       THEN ExceptBranch(e)
       ELSE IF IsAccepted(s)
       THEN /\ log' = [log EXCEPT ![e] = Append(@, InfoLine(e))]
            /\ Return(e, "True")
       ELSE IF IsRetryable(s)
       THEN /\ UNCHANGED log
            /\ Backoff(e)
       ELSE /\ log' = [log EXCEPT ![e] = Append(@, UnexpectedLine(s))]
            /\ Return(e, "False")
    /\ UNCHANGED <<config, schedVars, workQueue, invocations, monVars, genCalls, toolVars>>

Next ==
    \/ Begin
    \/ Dispatch
    \/ PacingDone
    \/ Finish
    \/ \E e \in Indices : Start(e)
    \/ \E e \in Indices, s \in Outcomes : Respond(e, s)

Spec == Init /\ [][Next]_vars

FairSpec == Spec /\ WF_vars(Next)

(* --------------------------- monitor_queries -------------------------- *)
\* seed_events_clickhouse is not running (main was started with --mode query)
IngestIdle ==
    /\ NUM_EVENTS = 0
    /\ BATCH_SIZE = 1
    /\ REQUESTS_PER_SEC = 1
    /\ schedPc = "idle"
    /\ i = 0
    /\ batches = << >>
    /\ uuidCount = 0
    /\ workQueue = << >>
    /\ pc = [e \in Indices |-> "new"]
    /\ retries = [e \in Indices |-> 0]
    /\ backoff = [e \in Indices |-> 0]
    /\ responses = [e \in Indices |-> << >>]
    /\ sleeps = [e \in Indices |-> << >>]
    /\ result = [e \in Indices |-> "none"]
    /\ log = [e \in Indices |-> << >>]
    /\ invocations = [e \in Indices |-> 0]
    /\ sent = [e \in Indices |-> << >>]
    /\ schedLog = << >>
    /\ pacing = 0

\* state on entry of monitor_queries
MonitorInit ==
    /\ modeArg = "query"
    /\ IngestIdle
    /\ genCalls = << >>
    /\ ToolsIdle
    /\ monPc = "start"
    /\ client = "none"
    /\ qIdx = 1
    /\ cycleLog = << >>
    /\ cycles = << >>
    /\ monLog = << >>
    /\ store = 0
    /\ connects = 0

\* mutant: the ingestion lag is queried before the storage sum
Queries_LagFirst == <<"ingestion_lag_query", "storage_query", "summarise_query",
                      "event_count_query", "duration_query">>

\* the queries of one poll cycle, in the order the loop body issues them
Queries == <<"storage_query", "ingestion_lag_query", "summarise_query",
             "event_count_query", "duration_query">>

\* mutant: the event count query is replaced by an INSERT
QueryKind_Insert(q) == IF q = 4 THEN "INSERT" ELSE "SELECT"

\* the kind of statement of query q: each of the five is a SELECT
QueryKind(q) == "SELECT"

\* the events table after ClickHouse has executed a statement of that kind
Execute(kind, rows) == IF kind = "SELECT" THEN rows ELSE rows + 1

\* logger.info(f"... Query Result: {...}") for query q
ResultLine(q) == [level |-> "INFO", msg |-> Queries[q]]
\* logger.error(f"Failed to execute queries: {e}")
ErrorLine == [level |-> "ERROR", msg |-> "Failed to execute queries"]

\* a finished cycle is appended to the record of the last MaxCycles cycles
Remember(cs, c) ==
    IF Len(cs) < MaxCycles THEN Append(cs, c) ELSE Append(Tail(cs), c)

\* logger.info("Connecting to ClickHouse..."); clickhouse_connect.get_client
\* returns a client (ok) or raises; it is called outside the try block, so
\* an exception leaves monitor_queries (lines 36-46)
MonConnect(ok) ==
    /\ monPc = "start"
    /\ connects' = connects + 1
    /\ IF ok
       THEN /\ client' = "open"
            /\ monLog' = monLog \o <<"Connecting to ClickHouse...",
                                     "Starting query monitoring...">>
            /\ monPc' = "query"
       ELSE /\ client' = "none"
            /\ monLog' = Append(monLog, "Connecting to ClickHouse...")
            /\ monPc' = "raised"
    /\ UNCHANGED <<ingestVars, uuidCount, genCalls, toolVars, qIdx, cycleLog, cycles, store>>

\* mutant: each query has its own try block, the cycle goes on after a failure
QueryFails_Continues ==
    /\ cycleLog' = Append(cycleLog, [outcome |-> FALSE, line |-> ErrorLine])
    /\ store' = store
    /\ IF qIdx < Len(Queries)
       THEN qIdx' = qIdx + 1 /\ monPc' = "query"
       ELSE qIdx' = qIdx /\ monPc' = "sleep"

\* mutant: the exception of a query is not caught
QueryFails_Propagates ==
    /\ monPc' = "raised"
    /\ UNCHANGED <<cycleLog, qIdx, store>>

\* client.query (or the indexing of its rows) raises: except Exception logs
\* the error and the loop body ends (lines 116-118)
QueryFails ==
    /\ cycleLog' = Append(cycleLog, [outcome |-> FALSE, line |-> ErrorLine])
    /\ monPc' = "sleep"
    /\ UNCHANGED <<qIdx, store>>

\* client.query returns: the result is logged and the next query follows,
\* after the last one the loop body ends
QueryReturns ==
    /\ store' = Execute(QueryKind(qIdx), store)
    /\ cycleLog' = Append(cycleLog, [outcome |-> TRUE, line |-> ResultLine(qIdx)])
    /\ IF qIdx < Len(Queries)
       THEN qIdx' = qIdx + 1 /\ monPc' = "query"
       ELSE qIdx' = qIdx /\ monPc' = "sleep"

\* the next client.query call of the loop body and what follows it up to the
\* next blocking call
MonQuery(ok) ==
    /\ monPc = "query"
    /\ IF ok THEN QueryReturns ELSE QueryFails
    /\ UNCHANGED <<ingestVars, uuidCount, genCalls, toolVars, client, cycles, monLog, connects>>

\* mutant: the next cycle resumes at the query the last cycle stopped at
FirstQuery_Resume(q) == q

\* while True: the loop body starts again at its first query
FirstQuery(q) == 1

\* mutant: get_client is called inside the while loop
LoopEntry_Reconnect == "start"

\* while True: the loop body begins at the try block, after the connection
\* was made (line 47)
LoopEntry == "query"

\* time.sleep(QUERY_INTERVAL) returns and the next poll cycle begins
MonSleepDone ==
    /\ monPc = "sleep"
    /\ cycles' = Remember(cycles, cycleLog)
    /\ cycleLog' = << >>
    /\ qIdx' = FirstQuery(qIdx)
    /\ monPc' = LoopEntry
    /\ UNCHANGED <<ingestVars, uuidCount, genCalls, toolVars, client, monLog, store, connects>>

\* the ingestion API, not part of the monitor, adds a row to the events table
StoreWrite ==
    /\ monPc /= "idle"
    /\ store < MaxRows
    /\ store' = store + 1
    /\ UNCHANGED <<ingestVars, uuidCount, genCalls, toolVars, monPc, client, qIdx,
                   cycleLog, cycles, monLog, connects>>

MonitorNext ==
    \/ \E ok \in BOOLEAN : MonConnect(ok)
    \/ \E ok \in BOOLEAN : MonQuery(ok)
    \/ MonSleepDone
    \/ StoreWrite

MonitorSpec == MonitorInit /\ [][MonitorNext]_vars

\* every client.query call returns or raises, and time.sleep returns
MonitorFairSpec ==
    /\ MonitorSpec
    /\ WF_vars(\E ok \in BOOLEAN : MonQuery(ok))
    /\ WF_vars(MonSleepDone)

(* ----------------------- generate_event, called alone ----------------- *)
\* no run and no monitor: only generate_event is called
GenInit ==
    /\ modeArg = "absent"
    /\ IngestIdle
    /\ MonitorIdle
    /\ genCalls = << >>
    /\ ToolsIdle

\* one call generate_event(idx); uuid4() returns a value not returned before
\* (a collision of two random 122 bit values is not modelled)
GenCall(idx) ==
    /\ Len(genCalls) < MaxCalls
    /\ genCalls' = Append(genCalls,
                          [index |-> idx, event |-> generate_event(idx, uuidCount + 1)])
    /\ uuidCount' = uuidCount + 1
    /\ UNCHANGED <<ingestVars, monVars, toolVars>>

\* the list comprehension [generate_event(j) for j in range(lo, hi)]
GenBatch(lo, hi) ==
    /\ lo < hi
    /\ Len(genCalls) + (hi - lo) <= MaxCalls
    /\ genCalls' = genCalls \o MakeBatch(lo, hi, uuidCount)
    /\ uuidCount' = uuidCount + (hi - lo)
    /\ UNCHANGED <<ingestVars, monVars, toolVars>>

\* the indices generate_event is called on: the first ones, and indices
\* around the points where index % 10, % 200 and % 1000 wrap
GenIndices == (0 .. MaxIndex) \cup {9, 10, 199, 200, 999, 1000, 1205}

GenNext ==
    \/ \E idx \in GenIndices : GenCall(idx)
    \/ \E lo \in 0 .. MaxIndex : \E hi \in 0 .. (MaxIndex + 1) : GenBatch(lo, hi)

GenSpec == GenInit /\ [][GenNext]_vars

(* --------------------------------- main -------------------------------- *)
\* what the command line may hold for --mode: nothing, or one of the choices
ModeArgs == {"absent", "ingest", "query"}

\* parser.add_argument("--mode", choices=["ingest", "query"],
\* default="ingest"): the value of args.mode
ParseMode(arg) == IF arg = "absent" THEN "ingest" ELSE arg

\* mutant: both branches call seed_events_clickhouse
Component_AlwaysScheduler(m) ==
    IF m = "ingest" THEN "scheduler"
    ELSE IF m = "query" THEN "scheduler"
    ELSE "none"

\* the if / elif / else of main: the function called for args.mode
Component(m) ==
    IF m = "ingest" THEN "scheduler"
    ELSE IF m = "query" THEN "monitor"
    ELSE "none"

\* state on entry of main: neither component has been called. The monitor
\* reads none of the ingest settings, so query mode is explored with one
\* setting of them; the settings are varied when --mode ingest is given,
\* and a run of one event is explored when --mode is left out.
MainInit ==
    /\ modeArg \in ModeArgs
    /\ MonitorIdle
    /\ genCalls = << >>
    /\ ToolsIdle
    /\ IF modeArg = "query"
       THEN NUM_EVENTS = 0 /\ BATCH_SIZE = 1 /\ REQUESTS_PER_SEC = 1
       ELSE IF modeArg = "absent"
       THEN NUM_EVENTS = 1 /\ BATCH_SIZE = 1 /\ REQUESTS_PER_SEC = 1
       ELSE /\ NUM_EVENTS \in 0 .. MaxEvents
            /\ BATCH_SIZE \in 1 .. MaxBatch
            /\ REQUESTS_PER_SEC \in 1 .. MaxPool
    /\ schedPc = "idle"
    /\ i = 0
    /\ batches = << >>
    /\ uuidCount = 0
    /\ workQueue = << >>
    /\ pc = [e \in Indices |-> "new"]
    /\ retries = [e \in Indices |-> 0]
    /\ backoff = [e \in Indices |-> 0]
    /\ responses = [e \in Indices |-> << >>]
    /\ sleeps = [e \in Indices |-> << >>]
    /\ result = [e \in Indices |-> "none"]
    /\ log = [e \in Indices |-> << >>]
    /\ invocations = [e \in Indices |-> 0]
    /\ sent = [e \in Indices |-> << >>]
    /\ schedLog = << >>
    /\ pacing = 0

\* main parses the arguments and calls seed_events_clickhouse(CONFIG) or
\* monitor_queries(CONFIG) (lines 27-34)
MainCall ==
    /\ schedPc = "idle"
    /\ monPc = "idle"
    /\ LET c == Component(ParseMode(modeArg))
       IN /\ schedPc' = IF c = "scheduler" THEN "start" ELSE schedPc
          /\ monPc' = IF c = "monitor" THEN "start" ELSE monPc
    /\ UNCHANGED <<config, i, batches, uuidCount, schedLog, pacing, workQueue,
                   pc, postVars, genCalls, toolVars, client, qIdx, cycleLog, cycles,
                   monLog, store, connects>>

MainNext ==
    \/ MainCall
    \/ Next
    \/ MonitorNext

MainSpec == MainInit /\ [][MainNext]_vars

(* ------------------- api/tests/python/test_sdk.py: main ---------------- *)
\* The steps of main in the order it calls them (lines 2567-2776). For each
\* test_* function: calls, whether it makes an API call at all; guard, the
\* globals it tests before its API call, returning (or making no call) when
\* one is unset; args, the identifiers created by earlier steps that its
\* API call is passed; pre, the globals it assigns before the call; sets,
\* the identifiers it assigns from the response. Names are the globals
\* without their test_ prefix.
Steps == <<
    [fn |-> "test_create_customer", calls |-> TRUE, guard |-> {}, args |-> {},
     pre |-> {"customer_name"}, sets |-> {"customer_id"}],
    [fn |-> "test_get_customer", calls |-> TRUE, guard |-> {"customer_id"}, args |-> {"customer_id"},
     pre |-> {}, sets |-> {}],
    [fn |-> "test_list_customers", calls |-> TRUE, guard |-> {}, args |-> {},
     pre |-> {}, sets |-> {}],
    [fn |-> "test_update_customer", calls |-> TRUE, guard |-> {"customer_id"}, args |-> {"customer_id"},
     pre |-> {}, sets |-> {}],
    [fn |-> "test_lookup_customer", calls |-> TRUE, guard |-> {"customer_name"}, args |-> {},
     pre |-> {}, sets |-> {}],
    [fn |-> "test_search_customers", calls |-> TRUE, guard |-> {"customer_name"}, args |-> {},
     pre |-> {}, sets |-> {}],
    [fn |-> "test_get_customer_entitlements", calls |-> TRUE, guard |-> {"customer_id"}, args |-> {"customer_id"},
     pre |-> {}, sets |-> {}],
    [fn |-> "test_get_customer_upcoming_grants", calls |-> TRUE, guard |-> {"customer_id"}, args |-> {"customer_id"},
     pre |-> {}, sets |-> {}],
    [fn |-> "test_get_customer_usage", calls |-> TRUE, guard |-> {"customer_id"}, args |-> {"customer_id"},
     pre |-> {}, sets |-> {}],
    [fn |-> "test_create_feature", calls |-> TRUE, guard |-> {}, args |-> {},
     pre |-> {"feature_name"}, sets |-> {"feature_id"}],
    [fn |-> "test_get_feature", calls |-> TRUE, guard |-> {"feature_id"}, args |-> {"feature_id"},
     pre |-> {}, sets |-> {}],
    [fn |-> "test_list_features", calls |-> TRUE, guard |-> {}, args |-> {},
     pre |-> {}, sets |-> {}],
    [fn |-> "test_update_feature", calls |-> TRUE, guard |-> {"feature_id"}, args |-> {"feature_id"},
     pre |-> {}, sets |-> {}],
    [fn |-> "test_search_features", calls |-> TRUE, guard |-> {"feature_id"}, args |-> {"feature_id"},
     pre |-> {}, sets |-> {}],
    [fn |-> "test_list_connections", calls |-> TRUE, guard |-> {}, args |-> {},
     pre |-> {}, sets |-> {}],
    [fn |-> "test_search_connections", calls |-> TRUE, guard |-> {}, args |-> {},
     pre |-> {}, sets |-> {}],
    [fn |-> "test_create_plan", calls |-> TRUE, guard |-> {}, args |-> {},
     pre |-> {"plan_name"}, sets |-> {"plan_id"}],
    [fn |-> "test_get_plan", calls |-> TRUE, guard |-> {"plan_id"}, args |-> {"plan_id"},
     pre |-> {}, sets |-> {}],
    [fn |-> "test_list_plans", calls |-> TRUE, guard |-> {}, args |-> {},
     pre |-> {}, sets |-> {}],
    [fn |-> "test_update_plan", calls |-> TRUE, guard |-> {"plan_id"}, args |-> {"plan_id"},
     pre |-> {}, sets |-> {}],
    [fn |-> "test_search_plans", calls |-> TRUE, guard |-> {"plan_id"}, args |-> {"plan_id"},
     pre |-> {}, sets |-> {}],
    [fn |-> "test_create_addon", calls |-> TRUE, guard |-> {}, args |-> {},
     pre |-> {"addon_lookup_key", "addon_name"}, sets |-> {"addon_id"}],
    [fn |-> "test_get_addon", calls |-> TRUE, guard |-> {"addon_id"}, args |-> {"addon_id"},
     pre |-> {}, sets |-> {}],
    [fn |-> "test_list_addons", calls |-> TRUE, guard |-> {}, args |-> {},
     pre |-> {}, sets |-> {}],
    [fn |-> "test_update_addon", calls |-> TRUE, guard |-> {"addon_id"}, args |-> {"addon_id"},
     pre |-> {}, sets |-> {}],
    [fn |-> "test_lookup_addon", calls |-> TRUE, guard |-> {"addon_lookup_key"}, args |-> {},
     pre |-> {}, sets |-> {}],
    [fn |-> "test_search_addons", calls |-> TRUE, guard |-> {"addon_id"}, args |-> {"addon_id"},
     pre |-> {}, sets |-> {}],
    [fn |-> "test_create_entitlement", calls |-> TRUE, guard |-> {"feature_id", "plan_id"}, args |-> {"feature_id", "plan_id"},
     pre |-> {}, sets |-> {"entitlement_id"}],
    [fn |-> "test_get_entitlement", calls |-> TRUE, guard |-> {"entitlement_id"}, args |-> {"entitlement_id"},
     pre |-> {}, sets |-> {}],
    [fn |-> "test_list_entitlements", calls |-> TRUE, guard |-> {}, args |-> {},
     pre |-> {}, sets |-> {}],
    [fn |-> "test_update_entitlement", calls |-> TRUE, guard |-> {"entitlement_id"}, args |-> {"entitlement_id"},
     pre |-> {}, sets |-> {}],
    [fn |-> "test_search_entitlements", calls |-> TRUE, guard |-> {"entitlement_id"}, args |-> {"entitlement_id"},
     pre |-> {}, sets |-> {}],
    [fn |-> "test_create_subscription", calls |-> TRUE, guard |-> {"customer_id", "plan_id"}, args |-> {"customer_id", "plan_id"},
     pre |-> {}, sets |-> {"subscription_id"}],
    [fn |-> "test_get_subscription", calls |-> TRUE, guard |-> {"subscription_id"}, args |-> {"subscription_id"},
     pre |-> {}, sets |-> {}],
    [fn |-> "test_list_subscriptions", calls |-> TRUE, guard |-> {}, args |-> {},
     pre |-> {}, sets |-> {}],
    [fn |-> "test_update_subscription", calls |-> FALSE, guard |-> {}, args |-> {},
     pre |-> {}, sets |-> {}],
    [fn |-> "test_search_subscriptions", calls |-> TRUE, guard |-> {}, args |-> {},
     pre |-> {}, sets |-> {}],
    [fn |-> "test_activate_subscription", calls |-> TRUE, guard |-> {"customer_id", "plan_id"}, args |-> {"customer_id", "plan_id"},
     pre |-> {}, sets |-> {}],
    [fn |-> "test_add_addon_to_subscription", calls |-> TRUE, guard |-> {"addon_id", "subscription_id"}, args |-> {"addon_id", "subscription_id"},
     pre |-> {}, sets |-> {}],
    [fn |-> "test_remove_addon_from_subscription", calls |-> FALSE, guard |-> {}, args |-> {},
     pre |-> {}, sets |-> {}],
    [fn |-> "test_execute_subscription_change", calls |-> FALSE, guard |-> {}, args |-> {},
     pre |-> {}, sets |-> {}],
    [fn |-> "test_get_subscription_entitlements", calls |-> TRUE, guard |-> {"subscription_id"}, args |-> {"subscription_id"},
     pre |-> {}, sets |-> {}],
    [fn |-> "test_get_upcoming_grants", calls |-> TRUE, guard |-> {"subscription_id"}, args |-> {"subscription_id"},
     pre |-> {}, sets |-> {}],
    [fn |-> "test_report_usage", calls |-> TRUE, guard |-> {"subscription_id"}, args |-> {"subscription_id"},
     pre |-> {}, sets |-> {}],
    [fn |-> "test_update_line_item", calls |-> FALSE, guard |-> {}, args |-> {},
     pre |-> {}, sets |-> {}],
    [fn |-> "test_delete_line_item", calls |-> FALSE, guard |-> {}, args |-> {},
     pre |-> {}, sets |-> {}],
    [fn |-> "test_cancel_subscription", calls |-> TRUE, guard |-> {"subscription_id"}, args |-> {"subscription_id"},
     pre |-> {}, sets |-> {}],
    [fn |-> "test_list_invoices", calls |-> TRUE, guard |-> {}, args |-> {},
     pre |-> {}, sets |-> {"invoice_id"}],
    [fn |-> "test_search_invoices", calls |-> TRUE, guard |-> {}, args |-> {},
     pre |-> {}, sets |-> {}],
    [fn |-> "test_create_invoice", calls |-> TRUE, guard |-> {"customer_id"}, args |-> {"customer_id"},
     pre |-> {}, sets |-> {"invoice_id"}],
    [fn |-> "test_get_invoice", calls |-> TRUE, guard |-> {"invoice_id"}, args |-> {"invoice_id"},
     pre |-> {}, sets |-> {}],
    [fn |-> "test_update_invoice", calls |-> TRUE, guard |-> {"invoice_id"}, args |-> {"invoice_id"},
     pre |-> {}, sets |-> {}],
    [fn |-> "test_preview_invoice", calls |-> TRUE, guard |-> {"customer_id"}, args |-> {"subscription_id"},
     pre |-> {}, sets |-> {}],
    [fn |-> "test_finalize_invoice", calls |-> TRUE, guard |-> {"customer_id"}, args |-> {"customer_id"},
     pre |-> {}, sets |-> {}],
    [fn |-> "test_recalculate_invoice", calls |-> FALSE, guard |-> {}, args |-> {},
     pre |-> {}, sets |-> {}],
    [fn |-> "test_record_payment", calls |-> TRUE, guard |-> {"invoice_id"}, args |-> {"invoice_id"},
     pre |-> {}, sets |-> {}],
    [fn |-> "test_attempt_payment", calls |-> TRUE, guard |-> {"customer_id"}, args |-> {"customer_id"},
     pre |-> {}, sets |-> {}],
    [fn |-> "test_download_invoice_pdf", calls |-> TRUE, guard |-> {"invoice_id"}, args |-> {"invoice_id"},
     pre |-> {}, sets |-> {}],
    [fn |-> "test_trigger_invoice_comms", calls |-> TRUE, guard |-> {"invoice_id"}, args |-> {"invoice_id"},
     pre |-> {}, sets |-> {}],
    [fn |-> "test_get_customer_invoice_summary", calls |-> TRUE, guard |-> {"customer_id"}, args |-> {"customer_id"},
     pre |-> {}, sets |-> {}],
    [fn |-> "test_void_invoice", calls |-> TRUE, guard |-> {"invoice_id"}, args |-> {"invoice_id"},
     pre |-> {}, sets |-> {}],
    [fn |-> "test_create_price", calls |-> TRUE, guard |-> {"plan_id"}, args |-> {"plan_id"},
     pre |-> {}, sets |-> {"price_id"}],
    [fn |-> "test_get_price", calls |-> TRUE, guard |-> {"price_id"}, args |-> {"price_id"},
     pre |-> {}, sets |-> {}],
    [fn |-> "test_list_prices", calls |-> TRUE, guard |-> {}, args |-> {},
     pre |-> {}, sets |-> {}],
    [fn |-> "test_update_price", calls |-> TRUE, guard |-> {"price_id"}, args |-> {"price_id"},
     pre |-> {}, sets |-> {}],
    [fn |-> "test_create_payment", calls |-> TRUE, guard |-> {"customer_id"}, args |-> {"customer_id"},
     pre |-> {}, sets |-> {"payment_id"}],
    [fn |-> "test_get_payment", calls |-> TRUE, guard |-> {"payment_id"}, args |-> {"payment_id"},
     pre |-> {}, sets |-> {}],
    [fn |-> "test_search_payments", calls |-> FALSE, guard |-> {}, args |-> {},
     pre |-> {}, sets |-> {}],
    [fn |-> "test_list_payments", calls |-> TRUE, guard |-> {}, args |-> {},
     pre |-> {}, sets |-> {}],
    [fn |-> "test_update_payment", calls |-> TRUE, guard |-> {"payment_id"}, args |-> {"payment_id"},
     pre |-> {}, sets |-> {}],
    [fn |-> "test_process_payment", calls |-> TRUE, guard |-> {"payment_id"}, args |-> {"payment_id"},
     pre |-> {}, sets |-> {}],
    [fn |-> "test_create_wallet", calls |-> TRUE, guard |-> {"customer_id"}, args |-> {"customer_id"},
     pre |-> {}, sets |-> {"wallet_id"}],
    [fn |-> "test_get_wallet", calls |-> TRUE, guard |-> {"wallet_id"}, args |-> {"wallet_id"},
     pre |-> {}, sets |-> {}],
    [fn |-> "test_list_wallets", calls |-> TRUE, guard |-> {}, args |-> {},
     pre |-> {}, sets |-> {}],
    [fn |-> "test_update_wallet", calls |-> TRUE, guard |-> {"wallet_id"}, args |-> {"wallet_id"},
     pre |-> {}, sets |-> {}],
    [fn |-> "test_get_wallet_balance", calls |-> TRUE, guard |-> {"wallet_id"}, args |-> {"wallet_id"},
     pre |-> {}, sets |-> {}],
    [fn |-> "test_top_up_wallet", calls |-> TRUE, guard |-> {"wallet_id"}, args |-> {"wallet_id"},
     pre |-> {}, sets |-> {}],
    [fn |-> "test_debit_wallet", calls |-> TRUE, guard |-> {"wallet_id"}, args |-> {"wallet_id"},
     pre |-> {}, sets |-> {}],
    [fn |-> "test_get_wallet_transactions", calls |-> TRUE, guard |-> {"wallet_id"}, args |-> {"wallet_id"},
     pre |-> {}, sets |-> {}],
    [fn |-> "test_search_wallets", calls |-> TRUE, guard |-> {}, args |-> {},
     pre |-> {}, sets |-> {}],
    [fn |-> "test_create_credit_grant", calls |-> TRUE, guard |-> {"plan_id"}, args |-> {"plan_id"},
     pre |-> {}, sets |-> {"credit_grant_id"}],
    [fn |-> "test_get_credit_grant", calls |-> TRUE, guard |-> {"credit_grant_id"}, args |-> {"credit_grant_id"},
     pre |-> {}, sets |-> {}],
    [fn |-> "test_list_credit_grants", calls |-> TRUE, guard |-> {"plan_id"}, args |-> {"plan_id"},
     pre |-> {}, sets |-> {}],
    [fn |-> "test_update_credit_grant", calls |-> TRUE, guard |-> {"credit_grant_id"}, args |-> {"credit_grant_id"},
     pre |-> {}, sets |-> {}],
    [fn |-> "test_create_credit_note", calls |-> TRUE, guard |-> {"customer_id", "invoice_id"}, args |-> {"invoice_id"},
     pre |-> {}, sets |-> {"credit_note_id"}],
    [fn |-> "test_get_credit_note", calls |-> TRUE, guard |-> {"credit_note_id"}, args |-> {"credit_note_id"},
     pre |-> {}, sets |-> {}],
    [fn |-> "test_list_credit_notes", calls |-> TRUE, guard |-> {"credit_note_id"}, args |-> {"credit_note_id"},
     pre |-> {}, sets |-> {}],
    [fn |-> "test_finalize_credit_note", calls |-> TRUE, guard |-> {"credit_note_id"}, args |-> {"credit_note_id"},
     pre |-> {}, sets |-> {}],
    [fn |-> "test_create_event", calls |-> TRUE, guard |-> {}, args |-> {},
     pre |-> {"event_customer_id", "event_name"}, sets |-> {"event_id"}],
    [fn |-> "test_query_events", calls |-> TRUE, guard |-> {"event_name"}, args |-> {},
     pre |-> {}, sets |-> {}],
    [fn |-> "test_async_event_enqueue", calls |-> TRUE, guard |-> {}, args |-> {},
     pre |-> {}, sets |-> {}],
    [fn |-> "test_async_event_enqueue_with_options", calls |-> TRUE, guard |-> {}, args |-> {},
     pre |-> {}, sets |-> {}],
    [fn |-> "test_async_event_batch", calls |-> TRUE, guard |-> {}, args |-> {},
     pre |-> {}, sets |-> {}],
    [fn |-> "test_delete_payment", calls |-> TRUE, guard |-> {"payment_id"}, args |-> {"payment_id"},
     pre |-> {}, sets |-> {}],
    [fn |-> "test_delete_price", calls |-> TRUE, guard |-> {"price_id"}, args |-> {"price_id"},
     pre |-> {}, sets |-> {}],
    [fn |-> "test_delete_entitlement", calls |-> TRUE, guard |-> {"entitlement_id"}, args |-> {"entitlement_id"},
     pre |-> {}, sets |-> {}],
    [fn |-> "test_delete_addon", calls |-> TRUE, guard |-> {"addon_id"}, args |-> {"addon_id"},
     pre |-> {}, sets |-> {}],
    [fn |-> "test_delete_plan", calls |-> TRUE, guard |-> {"plan_id"}, args |-> {"plan_id"},
     pre |-> {}, sets |-> {}],
    [fn |-> "test_delete_feature", calls |-> TRUE, guard |-> {"feature_id"}, args |-> {"feature_id"},
     pre |-> {}, sets |-> {}],
    [fn |-> "test_delete_credit_grant", calls |-> TRUE, guard |-> {"credit_grant_id"}, args |-> {"credit_grant_id"},
     pre |-> {}, sets |-> {}],
    [fn |-> "test_delete_customer", calls |-> TRUE, guard |-> {"customer_id"}, args |-> {"customer_id"},
     pre |-> {}, sets |-> {}] >>

\* the first step of the cleanup phase (line 2767)
FirstCleanup == CHOOSE k \in 1 .. Len(Steps) : Steps[k].fn = "test_delete_payment"

\* get_server_url_and_api_key: without FLEXPRICE_API_KEY main exits before the
\* first step (lines 154-163, 2556); otherwise the client is opened
SdkBegin(envOk) ==
    /\ sdkStep = 0
    /\ lastCall = NoCall
    /\ sdkStep' = IF envOk THEN 1 ELSE -1
    /\ UNCHANGED <<ids, lastCall>>
    /\ UNCHANGED <<ingestVars, uuidCount, genCalls, monVars, ddbVars, aioVars>>

\* every step catches the exceptions of its API calls (except Exception) and
\* returns to main, which calls the next step
AfterStep(k, outcome) == k + 1

\* the step makes its API call: it has one, and no global of its guard is
\* unset
IssuesCall(s, set) == s.calls /\ s.guard \subseteq set

\* main calls the next test_* function; its API call, if it makes one,
\* returns (ok) or raises (error)
RunStep(outcome) ==
    /\ sdkStep \in 1 .. Len(Steps)
    /\ LET s == Steps[sdkStep] IN
       IF IssuesCall(s, ids)
       THEN /\ lastCall' = [fn |-> s.fn, called |-> TRUE, outcome |-> outcome,
                            missing |-> s.args \ ids]
            /\ ids' = ids \cup s.pre \cup (IF outcome = "ok" THEN s.sets ELSE {})
       ELSE /\ lastCall' = [fn |-> s.fn, called |-> FALSE, outcome |-> "skipped",
                            missing |-> {}]
            /\ ids' = ids
    /\ sdkStep' = AfterStep(sdkStep, outcome)
    /\ UNCHANGED <<ingestVars, uuidCount, genCalls, monVars, ddbVars, aioVars>>

SdkInit ==
    /\ modeArg = "absent"
    /\ IngestIdle
    /\ MonitorIdle
    /\ genCalls = << >>
    /\ ToolsIdle

SdkNext ==
    \/ \E envOk \in BOOLEAN : SdkBegin(envOk)
    \/ \E outcome \in {"ok", "error"} : RunStep(outcome)

SdkSpec == SdkInit /\ [][SdkNext]_vars

(* -------------------- scripts/local/dynamodb_replicate.py -------------- *)
\* batch_size = 1000
batch_size == 1000

CsvSizes == {250 * q : q \in 0 .. MaxQuarters}

\* state when the script is started: the export holds csvRows rows
DdbInit ==
    /\ modeArg = "absent"
    /\ IngestIdle
    /\ MonitorIdle
    /\ genCalls = << >>
    /\ SdkIdle
    /\ AioIdle
    /\ ddbPc = "start"
    /\ csvRows \in CsvSizes
    /\ ddbI = 0
    /\ inserted = << >>
    /\ ddbLog = << >>

\* read_csv, the column fixes and data.iloc[0] (lines 26-75): they raise when
\* the file or a column is missing and when the export has no row
DdbRead(ok) ==
    /\ ddbPc = "start"
    /\ ddbLog' = Append(ddbLog, "Reading DynamoDB export data...")
    /\ ddbPc' = IF ok /\ csvRows > 0 THEN "connect" ELSE "raised"
    /\ UNCHANGED <<csvRows, ddbI, inserted>>
    /\ UNCHANGED <<ingestVars, uuidCount, genCalls, monVars, sdkVars, aioVars>>

\* range(0, len(data), batch_size): the loop body runs for i < len(data),
\* after the loop the number of rows is logged and the function returns
InsertLoopHead(lo) == IF lo < csvRows THEN "insert" ELSE "returned"

\* clickhouse_connect.get_client (lines 78-85), outside the try block, then
\* the insert loop is entered
DdbConnect(ok) ==
    /\ ddbPc = "connect"
    /\ ddbLog' = ddbLog \o <<"Connecting to ClickHouse...">>
                  \o (IF ok THEN <<"Inserting data into ClickHouse using queries...">>
                      ELSE << >>)
    /\ ddbPc' = IF ok THEN InsertLoopHead(0) ELSE "raised"
    /\ UNCHANGED <<csvRows, ddbI, inserted>>
    /\ UNCHANGED <<ingestVars, uuidCount, genCalls, monVars, sdkVars, aioVars>>

\* data.iloc[lo:lo + batch_size]: the rows lo .. hi - 1 of the export
Slice(lo) == [lo |-> lo, hi |-> Min(lo + batch_size, csvRows)]

\* mutant: the error is logged and the loop goes on with the next batch
InsertFails_NextBatch ==
    /\ ddbLog' = ddbLog \o <<"Error during insertion", "Exact payload for first row:",
                             "first_row">>
    /\ ddbI' = ddbI + batch_size
    /\ ddbPc' = InsertLoopHead(ddbI + batch_size)
    /\ UNCHANGED inserted

\* mutant: the error is logged but not raised again
InsertFails_Swallowed ==
    /\ ddbLog' = ddbLog \o <<"Error during insertion", "Exact payload for first row:",
                             "first_row">>
    /\ ddbPc' = "returned"
    /\ UNCHANGED <<inserted, ddbI>>

\* client.command raises: except Exception logs three lines and re-raises
\* (lines 112-116)
InsertFails ==
    /\ ddbLog' = ddbLog \o <<"Error during insertion", "Exact payload for first row:",
                             "first_row">>
    /\ ddbPc' = "raised"
    /\ UNCHANGED <<inserted, ddbI>>

\* client.command returns: ClickHouse has stored the batch; the loop goes on
\* or ends with the log line of line 111
InsertReturns ==
    /\ inserted' = Append(inserted, Slice(ddbI))
    /\ ddbI' = ddbI + batch_size
    /\ ddbPc' = InsertLoopHead(ddbI + batch_size)
    /\ ddbLog' = IF InsertLoopHead(ddbI + batch_size) = "returned"
                 THEN Append(ddbLog, "Inserted rows") ELSE ddbLog

\* one iteration of the insert loop (lines 91-109)
DdbInsert(ok) ==
    /\ ddbPc = "insert"
    /\ IF ok THEN InsertReturns ELSE InsertFails
    /\ UNCHANGED csvRows
    /\ UNCHANGED <<ingestVars, uuidCount, genCalls, monVars, sdkVars, aioVars>>

\* the entry point: success is logged after fix_and_insert_data returned,
\* an exception is caught and logged (lines 119-124)
DdbMain ==
    /\ ddbPc \in {"returned", "raised"}
    /\ ddbLog' = Append(ddbLog, IF ddbPc = "returned"
                                THEN "Data ingestion completed successfully."
                                ELSE "An error occurred")
    /\ ddbPc' = "done"
    /\ UNCHANGED <<csvRows, ddbI, inserted>>
    /\ UNCHANGED <<ingestVars, uuidCount, genCalls, monVars, sdkVars, aioVars>>

DdbNext ==
    \/ \E ok \in BOOLEAN : DdbRead(ok)
    \/ \E ok \in BOOLEAN : DdbConnect(ok)
    \/ \E ok \in BOOLEAN : DdbInsert(ok)
    \/ DdbMain

DdbSpec == DdbInit /\ [][DdbNext]_vars

(* -------------------- examples/with-python-asyncio/app.py -------------- *)
\* asyncio.run(main()) has created the event loop and main is about to run
AioInit ==
    /\ modeArg = "absent"
    /\ IngestIdle
    /\ MonitorIdle
    /\ genCalls = << >>
    /\ SdkIdle
    /\ DdbIdle
    /\ aioPc = "start"
    /\ fut = [s \in Subs |-> "none"]
    /\ task = [s \in Subs |-> "unstarted"]
    /\ cb = [s \in Subs |-> "none"]
    /\ sched = [s \in Subs |-> "none"]
    /\ loopQ = << >>
    /\ loopOpen = TRUE
    /\ queried = FALSE

aioFrame == <<ingestVars, uuidCount, genCalls, monVars, sdkVars, ddbVars>>

\* an entry of the loop's ready queue: the loop runs them first in, first out
Handle(s, call) == [s |-> s, call |-> call]

\* the entry at the head of the ready queue of the open loop
Ready(s, call) == loopOpen /\ loopQ /= << >> /\ Head(loopQ) = Handle(s, call)

\* main up to asyncio.gather: without FLEXPRICE_API_KEY or CUSTOMER_ID it
\* raises RuntimeError and asyncio.run stops the loop (lines 12-18, 80);
\* otherwise gather creates one task per submission, in the order of its
\* arguments, and main awaits them (line 55)
AioMainStart(envOk) ==
    /\ aioPc = "start"
    /\ aioPc' = IF envOk THEN "gather" ELSE "raised"
    /\ loopQ' = IF envOk THEN <<Handle(1, "start"), Handle(2, "start")>>
                ELSE <<Handle(0, "stop")>>
    /\ UNCHANGED <<fut, task, cb, sched, loopOpen, queried>>
    /\ UNCHANGED aioFrame

\* post_event_async up to its await: the future is created, the SDK is handed
\* the request and the callback, the task awaits the future (lines 26-36)
PostEventAsync(s) ==
    /\ Ready(s, "start")
    /\ loopQ' = Tail(loopQ)
    /\ fut' = [fut EXCEPT ![s] = "pending"]
    /\ task' = [task EXCEPT ![s] = "awaiting"]
    /\ cb' = [cb EXCEPT ![s] = "waiting"]
    /\ UNCHANGED <<aioPc, sched, loopOpen, queried>>
    /\ UNCHANGED aioFrame

\* the completion _cb asks for: fut.set_exception when error, else fut.set_result
Completion(error) == IF error THEN "set_exception" ELSE "set_result"

\* _cb, run by the SDK on its own thread once the request is answered: it hands
\* the completion to loop.call_soon_threadsafe, which queues it on an open
\* loop and raises RuntimeError on a closed one (lines 29-33)
Callback(s, error) ==
    /\ cb[s] = "waiting"
    /\ cb' = [cb EXCEPT ![s] = IF error THEN "error" ELSE "data"]
    /\ IF loopOpen
       THEN /\ loopQ' = Append(loopQ, Handle(s, Completion(error)))
            /\ sched' = [sched EXCEPT ![s] = "queued"]
       ELSE /\ loopQ' = loopQ
            /\ sched' = [sched EXCEPT ![s] = "refused"]
    /\ UNCHANGED <<aioPc, fut, task, loopOpen, queried>>
    /\ UNCHANGED aioFrame

\* Future.set_result / set_exception: a pending future takes the value, any
\* other future raises InvalidStateError and keeps its state
SetFuture(state, call) ==
    IF state = "pending"
    THEN (IF call = "set_result" THEN "result" ELSE "exception")
    ELSE state

\* the event loop runs a queued completion on its own thread; a future that
\* was pending wakes the task that awaits it
LoopRun(s) ==
    /\ \E call \in {"set_result", "set_exception"} :
          /\ Ready(s, call)
          /\ fut' = [fut EXCEPT ![s] = SetFuture(fut[s], call)]
    /\ sched' = [sched EXCEPT ![s] = IF fut[s] = "pending" THEN "ran" ELSE "invalid_state"]
    /\ loopQ' = IF fut[s] = "pending" /\ task[s] = "awaiting"
                THEN Append(Tail(loopQ), Handle(s, "wake"))
                ELSE Tail(loopQ)
    /\ UNCHANGED <<aioPc, task, cb, loopOpen, queried>>
    /\ UNCHANGED aioFrame

\* return await fut: the task returns the data or raises the exception, and
\* its completion calls gather back (line 36)
TaskWake(s) ==
    /\ Ready(s, "wake")
    /\ task' = [task EXCEPT ![s] = IF fut[s] = "result" THEN "returned" ELSE "raised"]
    /\ loopQ' = Append(Tail(loopQ), Handle(s, "gathered"))
    /\ UNCHANGED <<aioPc, fut, cb, sched, loopOpen, queried>>
    /\ UNCHANGED aioFrame

\* asyncio.gather is told that task s is done: the first exception of a task
\* completes gather at once, otherwise gather completes when every task has
\* returned; completing gather wakes main (line 55)
GatherCallback(s) ==
    /\ Ready(s, "gathered")
    /\ loopQ' = IF /\ aioPc = "gather"
                   /\ \A h \in 1 .. Len(loopQ) : loopQ[h] /= Handle(0, "main")
                   /\ \/ task[s] = "raised"
                      \/ \A r \in Subs : task[r] = "returned"
                THEN Append(Tail(loopQ), Handle(0, "main"))
                ELSE Tail(loopQ)
    /\ UNCHANGED <<aioPc, fut, task, cb, sched, loopOpen, queried>>
    /\ UNCHANGED aioFrame

\* main after await asyncio.gather(...): an exception of a task is raised in
\* main, which has no handler, so asyncio.run stops the loop; otherwise main
\* goes on and issues events_get_async (lines 55-58, 80)
GatherResume ==
    /\ Ready(0, "main")
    /\ IF \E s \in Subs : task[s] = "raised"
       THEN /\ aioPc' = "raised"
            /\ queried' = queried
            /\ loopQ' = Append(Tail(loopQ), Handle(0, "stop"))
       ELSE /\ aioPc' = "query"
            /\ queried' = TRUE
            /\ loopQ' = Tail(loopQ)
    /\ UNCHANGED <<fut, task, cb, sched, loopOpen>>
    /\ UNCHANGED aioFrame

\* events_get_async is answered: main prints the summary and returns, or the
\* query raises; either way asyncio.run stops the loop (lines 58-76, 80)
AioSummary(ok) ==
    /\ aioPc = "query"
    /\ loopOpen
    /\ aioPc' = IF ok THEN "returned" ELSE "raised"
    /\ loopQ' = Append(loopQ, Handle(0, "stop"))
    /\ UNCHANGED <<fut, task, cb, sched, loopOpen, queried>>
    /\ UNCHANGED aioFrame

\* asyncio.run after main has returned or raised: every task that is still
\* pending is cancelled, which cancels the future it awaits (line 80)
RunCancelsTasks ==
    /\ Ready(0, "stop")
    /\ loopQ' = Tail(loopQ)
    /\ task' = [s \in Subs |-> IF task[s] = "awaiting" THEN "cancelled" ELSE task[s]]
    /\ fut' = [s \in Subs |-> IF task[s] = "awaiting" /\ fut[s] = "pending"
                              THEN "cancelled" ELSE fut[s]]
    /\ aioPc' = "closing"
    /\ UNCHANGED <<cb, sched, loopOpen, queried>>
    /\ UNCHANGED aioFrame

\* asyncio.run closes the loop once the queued entries have been run (line 80)
LoopClose ==
    /\ aioPc = "closing"
    /\ loopOpen
    /\ loopQ = << >>
    /\ loopOpen' = FALSE
    /\ aioPc' = "done"
    /\ UNCHANGED <<fut, task, cb, sched, loopQ, queried>>
    /\ UNCHANGED aioFrame

AioNext ==
    \/ \E envOk \in BOOLEAN : AioMainStart(envOk)
    \/ \E s \in Subs : PostEventAsync(s)
    \/ \E s \in Subs, error \in BOOLEAN : Callback(s, error)
    \/ \E s \in Subs : LoopRun(s)
    \/ \E s \in Subs : TaskWake(s)
    \/ \E s \in Subs : GatherCallback(s)
    \/ GatherResume
    \/ \E ok \in BOOLEAN : AioSummary(ok)
    \/ RunCancelsTasks
    \/ LoopClose

AioSpec == AioInit /\ [][AioNext]_vars

(* ====================================================================== *)
(* Properties                                                             *)
(* ====================================================================== *)
\* ceil(NUM_EVENTS / BATCH_SIZE)
NumBatches == (NUM_EVENTS + BATCH_SIZE - 1) \div BATCH_SIZE

\* the position in batches of the batch that holds event e (0: none yet)
BatchOf(e) ==
    IF \E k \in 1 .. Len(batches) : \E j \in 1 .. Len(batches[k]) : batches[k][j].index = e
    THEN CHOOSE k \in 1 .. Len(batches) : \E j \in 1 .. Len(batches[k]) : batches[k][j].index = e
    ELSE 0

RECURSIVE SumSizes(_)
SumSizes(bs) == IF bs = << >> THEN 0 ELSE Len(Head(bs)) + SumSizes(Tail(bs))

\* number of requests.post calls issued so far for event e
Attempts(e) == Len(responses[e]) + (IF pc[e] = "request" THEN 1 ELSE 0)

RECURSIVE Pow2(_)
Pow2(n) == IF n = 0 THEN 1 ELSE 2 * Pow2(n - 1)

\* C1: in no reachable state are events of two different batches queued or
\* in flight at the same time (batch k has settled before batch k+1 is
\* dispatched).
C1_OneBatchInFlight ==
    \A e1 \in Pending : \A e2 \in Pending : BatchOf(e1) = BatchOf(e2)

\* C2: exactly ceil(N/B) batches are dispatched, their sizes sum to N, every
\* batch holds at most B events and every batch but the last exactly B.
C2_BatchPartition ==
    /\ Len(batches) <= NumBatches
    /\ SumSizes(batches) <= NUM_EVENTS
    /\ \A k \in 1 .. Len(batches) :
          /\ Len(batches[k]) <= BATCH_SIZE
          /\ k < NumBatches => Len(batches[k]) = BATCH_SIZE
    /\ schedPc \in {"shutdown", "done"} =>
          /\ Len(batches) = NumBatches
          /\ SumSizes(batches) = NUM_EVENTS

\* C2 witness: a finished run of two batches
C2_Witness ==
    /\ schedPc = "done"
    /\ Len(batches) = 2
    /\ SumSizes(batches) = NUM_EVENTS

\* C3: at every moment at most REQUESTS_PER_SEC post_event invocations are
\* executing.
C3_BoundedConcurrency == Cardinality(Running) <= REQUESTS_PER_SEC

\* C3 witness: the pool is saturated while a submission waits in the queue
C3_Witness ==
    /\ Cardinality(Running) = REQUESTS_PER_SEC
    /\ workQueue /= << >>
    /\ \E e \in Running : Len(responses[e]) = 1
\* the last line seed_events_clickhouse logged is "Event ingestion completed"
Completed ==
    /\ schedLog /= << >>
    /\ schedLog[Len(schedLog)] = "Event ingestion completed"

AllDispatched == Len(batches) = NumBatches
AllAttempted == \A e \in Indices : Len(responses[e]) >= 1
AllReturned == \A e \in Indices : pc[e] = "returned" /\ result[e] \in {"True", "False"}

\* C4: when every HTTP attempt returns or raises, the scheduler eventually
\* logs "Event ingestion completed", and at that moment all ceil(N/B) batches
\* have been dispatched and post_event has returned for every event, none
\* queued or in flight.
C4_TerminatesSettled ==
    /\ <>Completed
    /\ [](Completed => (AllDispatched /\ AllReturned /\ workQueue = << >> /\ Pending = {}))

\* C4 witness: a completed run of two events, one of which was retried
C4_Witness ==
    /\ Completed
    /\ NUM_EVENTS = 2
    /\ \E e \in Indices : Len(responses[e]) = 2

\* C5: once some event has failed terminally, the run still dispatches all
\* ceil(N/B) batches and attempts every event at least once.
C5_FailureDoesNotHalt ==
    (\E e \in Indices : result[e] = "False") ~> (AllDispatched /\ AllAttempted)

\* C5 witness: an event of an earlier batch failed and an event of a later
\* batch has been attempted
C5_Witness ==
    \E e1 \in Indices : \E e2 \in Indices :
        /\ result[e1] = "False"
        /\ BatchOf(e1) >= 1
        /\ BatchOf(e2) > BatchOf(e1)
        /\ Len(responses[e2]) >= 1

\* h consists of n answers s
AllAre(h, s) == \A j \in 1 .. Len(h) : h[j] = s
Last(h) == h[Len(h)]
Front(h) == SubSeq(h, 1, Len(h) - 1)

\* C6: 429 on the first k <= MAX_RETRIES attempts and 202 on the next one:
\* post_event keeps attempting through the 429s, returns True after exactly
\* k + 1 attempts and its only log line is the terminal success line.
C6_RetryThenAccepted ==
    \A e \in Indices :
        LET h == responses[e] IN
        /\ (pc[e] \notin {"new", "queued"} /\ AllAre(h, 429) /\ Len(h) <= MAX_RETRIES)
              => (pc[e] = "request" /\ Attempts(e) = Len(h) + 1)
        /\ (h /= << >> /\ Last(h) = 202 /\ AllAre(Front(h), 429))
              => /\ pc[e] = "returned"
                 /\ result[e] = "True"
                 /\ Attempts(e) = Len(h)
                 /\ Len(h) - 1 <= MAX_RETRIES
                 /\ log[e] = <<InfoLine(e)>>

\* C6 witness: one 429, then 202
C6_Witness ==
    \E e \in Indices :
        /\ responses[e] = <<429, 202>>
        /\ pc[e] = "returned"
        /\ result[e] = "True"

\* C7: 500 on every attempt: post_event returns False after exactly
\* MAX_RETRIES + 1 attempts, and the sleep after failed attempt a (from 0)
\* lasts INITIAL_BACKOFF * 2^a.
C7_ExhaustedBackoff ==
    \A e \in Indices :
        LET h == responses[e] IN
        (pc[e] \notin {"new", "queued"} /\ AllAre(h, 500)) =>
            /\ Len(h) <= MAX_RETRIES => pc[e] = "request"
            /\ Len(h) > MAX_RETRIES =>
                  /\ pc[e] = "returned"
                  /\ result[e] = "False"
                  /\ Attempts(e) = MAX_RETRIES + 1
            /\ Len(sleeps[e]) = Len(h)
            /\ \A a \in 0 .. (Len(h) - 1) : sleeps[e][a + 1] = INITIAL_BACKOFF * Pow2(a)

\* C7 witness: the retry budget exhausted on 500s
C7_Witness ==
    \E e \in Indices :
        /\ pc[e] = "returned"
        /\ Len(responses[e]) = MAX_RETRIES + 1
        /\ AllAre(responses[e], 500)
        /\ result[e] = "False"

\* C8: a 400 answer ends post_event at once: the event gets exactly one
\* attempt when the first answer is 400, no sleep follows a 400, and the
\* result is False.
C8_RejectedNoRetry ==
    \A e \in Indices :
        LET h == responses[e] IN
        (h /= << >> /\ Last(h) = 400) =>
            /\ pc[e] = "returned"
            /\ result[e] = "False"
            /\ Len(sleeps[e]) = Len(h) - 1
            /\ h[1] = 400 => (Attempts(e) = 1 /\ sleeps[e] = << >>)

\* C8 witness: a first attempt answered 400
C8_Witness ==
    \E e \in Indices : responses[e] = <<400>> /\ pc[e] = "returned"

\* C9: 429 and every status in 500..599 is retried while retry budget
\* remains; every other non-2xx status is terminal.
C9_Retryable5xx ==
    \A e \in Indices :
        LET h == responses[e] IN
        h /= << >> =>
            /\ ((Last(h) = 429 \/ Last(h) \in 500 .. 599) /\ Len(h) <= MAX_RETRIES)
                  => pc[e] = "request"
            /\ (Last(h) \in Statuses /\ Last(h) \notin 200 .. 299
                    /\ Last(h) /= 429 /\ Last(h) \notin 500 .. 599)
                  => (pc[e] = "returned" /\ result[e] = "False")

\* C10: every status in 200..299 is accepted: post_event returns True and
\* makes no further attempt.
C10_Accepted2xx ==
    \A e \in Indices :
        LET h == responses[e] IN
        (h /= << >> /\ Last(h) \in 200 .. 299) =>
            (pc[e] = "returned" /\ result[e] = "True" /\ Attempts(e) = Len(h))

\* C11: every returned post_event has written exactly one log line for its
\* terminal outcome, the line names the event, and after exhausted retries
\* it carries the final status.
C11_OneTerminalLine ==
    \A e \in Indices :
        pc[e] = "returned" =>
            /\ log[e] /= << >>
            /\ Last(log[e]).event = e
            /\ Cardinality({j \in 1 .. Len(log[e]) : log[e][j].event = e}) = 1
            /\ Len(responses[e]) = MAX_RETRIES + 1
                  => Last(log[e]).status = Last(responses[e])

\* C12: an attempt that raises is retried while retry budget remains, and
\* post_event never lets the exception out: it makes at most
\* MAX_RETRIES + 1 attempts and returns True or False.
C12_ExceptionsRetried ==
    \A e \in Indices :
        LET h == responses[e] IN
        /\ Attempts(e) <= MAX_RETRIES + 1
        /\ pc[e] = "returned" => result[e] \in {"True", "False"}
        /\ (h /= << >> /\ Last(h) = EXC) =>
              IF Len(h) <= MAX_RETRIES
              THEN pc[e] = "request"
              ELSE pc[e] = "returned" /\ result[e] = "False"

\* C12 witness: a raising attempt followed by an accepted one
C12_Witness ==
    \E e \in Indices :
        /\ responses[e] = <<EXC, 202>>
        /\ pc[e] = "returned"
        /\ result[e] = "True"

\* failures the load generator has counted: the False values among the
\* results it read
FailureCount ==
    Cardinality({k \in 1 .. Len(MapResultsRead) : MapResultsRead[k] = "False"})

\* C13: at the end of a run the failure count equals the number of events
\* for which post_event returned False.
C13_FailuresCounted ==
    Completed =>
        FailureCount = Cardinality({e \in Indices : result[e] = "False"})
\* the record of a poll cycle in which every query returned
FullCycle ==
    [q \in 1 .. Len(Queries) |-> [outcome |-> TRUE, line |-> ResultLine(q)]]
CycleSucceeded(c) == \A j \in 1 .. Len(c) : c[j].outcome
\* the monitor is inside its while loop
Polling == monPc \in {"query", "sleep"}

\* C14: a poll cycle in which a query raised logged an error after the
\* results of the queries before it, the loop is still running, and every
\* cycle in which no query raised, before or after it, issued all five
\* queries and logged their results.
C14_FailureIsolated ==
    /\ cycles /= << >> => Polling
    /\ \A k \in 1 .. Len(cycles) :
          LET c == cycles[k] IN
          IF CycleSucceeded(c)
          THEN c = FullCycle
          ELSE /\ Last(c).line = ErrorLine
               /\ \A j \in 1 .. (Len(c) - 1) : c[j] = FullCycle[j]

\* C14 witness: a failed cycle between two complete ones
C14_Witness ==
    /\ Len(cycles) = 3
    /\ cycles[1] = FullCycle
    /\ ~CycleSucceeded(cycles[2])
    /\ cycles[3] = FullCycle
    /\ Polling

\* C15: no failure, neither of establishing the connection nor of a query,
\* makes monitor_queries raise or return: it is caught, logged, and the
\* loop goes on.
C15_NeverRaises ==
    /\ monPc /= "raised"
    /\ (monPc /= "start" /\ monPc /= "idle") => Polling

\* C16: once the loop is entered the monitor stays in it for ever, and after
\* every cycle, failed or not, it sleeps and starts another cycle.
C16_PollsForever ==
    /\ [][Polling => Polling']_vars
    /\ Polling ~> (monPc = "sleep")
    /\ (monPc = "sleep") ~> (monPc = "query" /\ qIdx = 1 /\ cycleLog = << >>)

\* C16 witness: a new cycle begins after a failed one
C16_Witness ==
    /\ monPc = "query"
    /\ cycleLog = << >>
    /\ cycles /= << >>
    /\ ~CycleSucceeded(Last(cycles))

\* a step taken by monitor_queries
MonitorStep ==
    \/ monPc' /= monPc
    \/ qIdx' /= qIdx
    \/ cycleLog' /= cycleLog
    \/ cycles' /= cycles
    \/ monLog' /= monLog
    \/ client' /= client

\* C17: no step of the monitor changes the contents of the store.
C17_StoreUntouched == [][MonitorStep => store' = store]_vars

\* C17 witness: a complete poll cycle on a store that holds rows
C17_Witness ==
    /\ store = MaxRows
    /\ cycles /= << >>
    /\ Last(cycles) = FullCycle
    /\ Len(cycleLog) = 2
\* the content of an event other than its identifier
StripId(ev) == [ev EXCEPT !.event_id = 0]

C19_UniqueEventIds ==
    \A a \in 1 .. Len(genCalls) : \A b \in 1 .. Len(genCalls) :
        a /= b => genCalls[a].event.event_id /= genCalls[b].event.event_id

\* C19 witness: an index generated twice, with distinct identifiers
C19_Witness ==
    \E a \in 1 .. Len(genCalls) : \E b \in 1 .. Len(genCalls) :
        /\ a < b
        /\ genCalls[a].index = genCalls[b].index
        /\ genCalls[a].event.event_id /= genCalls[b].event.event_id

\* the indices of a batch, in order
IndicesOf(batch) == [j \in 1 .. Len(batch) |-> batch[j].index]

\* C20: batch k holds the indices [k*B, min((k+1)*B, N)) in ascending order
\* (k from 0), so every index below N is synthesized exactly once when the
\* loop ends; a queued event is in the work queue exactly once and no event
\* is processed by more than one post_event invocation.
C20_EachEventOnce ==
    /\ \A k \in 1 .. Len(batches) :
          IndicesOf(batches[k]) =
              [j \in 1 .. (Min(k * BATCH_SIZE, NUM_EVENTS) - (k - 1) * BATCH_SIZE)
                  |-> (k - 1) * BATCH_SIZE + j - 1]
    /\ schedPc \in {"shutdown", "done"} =>
          \A e \in Indices : BatchOf(e) = (e \div BATCH_SIZE) + 1
    /\ \A e \in Indices :
          /\ Cardinality({j \in 1 .. Len(workQueue) : workQueue[j] = e})
                = (IF pc[e] = "queued" THEN 1 ELSE 0)
          /\ invocations[e] = (IF pc[e] \in {"request", "returned"} THEN 1 ELSE 0)

\* C20 witness: a finished run of two batches, every event processed once
C20_Witness ==
    /\ schedPc = "done"
    /\ Len(batches) = 2
    /\ \A e \in Indices : invocations[e] = 1 /\ pc[e] = "returned"

\* the sum of f[0], ..., f[n - 1]
RECURSIVE Total(_, _)
Total(f, n) == IF n = 0 THEN 0 ELSE f[n - 1] + Total(f, n - 1)

\* a failed attempt by the specification's terms: the call raised or was
\* answered 429 or 500
IsFailure(s) == s = EXC \/ s = 429 \/ s = 500

\* the retries of event e: its failed attempts that were within the retry
\* budget, each of which is followed by one more attempt
RetriesOf(e) ==
    Cardinality({j \in 1 .. Len(responses[e]) :
                    IsFailure(responses[e][j]) /\ j <= MAX_RETRIES})

\* C21: no event ever gets more than MAX_RETRIES + 1 attempts, and at the
\* end of a run of N events each event has had at least one attempt, so the
\* total number of attempts is N plus the number of retries and lies between
\* N and N * (MAX_RETRIES + 1).
C21_AttemptsPerRun ==
    /\ \A e \in Indices : Attempts(e) <= MAX_RETRIES + 1
    /\ Completed =>
          LET total == Total([e \in Indices |-> Attempts(e)], NUM_EVENTS) IN
          /\ \A e \in Indices : Attempts(e) >= 1
          /\ total = NUM_EVENTS + Total([e \in Indices |-> RetriesOf(e)], NUM_EVENTS)
          /\ total >= NUM_EVENTS
          /\ total <= NUM_EVENTS * (MAX_RETRIES + 1)

\* C21 witness: a finished run of two batches in which one event was
\* attempted once and the other MAX_RETRIES + 1 times
C21_Witness ==
    /\ Completed
    /\ Len(batches) = 2
    /\ \E e1 \in Indices : \E e2 \in Indices :
          Attempts(e1) = 1 /\ Attempts(e2) = MAX_RETRIES + 1

\* the state of the post_event invocation on event e
Local(e) ==
    [pc |-> pc[e], retries |-> retries[e], backoff |-> backoff[e],
     sleeps |-> sleeps[e], result |-> result[e], attempts |-> Attempts(e)]

\* event e takes a step of its post_event invocation
StepOf(e) == responses'[e] /= responses[e] \/ invocations'[e] /= invocations[e]

\* C22: a step of one post_event invocation leaves the retry counter, the
\* backoff, the sleeps and the result of every other event unchanged, and
\* two invocations that have received the same responses are in the same
\* state (same outcome, same number of attempts), whatever the interleaving.
C22_NoSharedState ==
    /\ [][\A e \in Indices : StepOf(e) =>
            \A x \in Indices \ {e} :
                /\ retries'[x] = retries[x]
                /\ backoff'[x] = backoff[x]
                /\ sleeps'[x] = sleeps[x]
                /\ result'[x] = result[x]
                /\ responses'[x] = responses[x]]_vars
    /\ [](\A e1 \in Indices : \A e2 \in Indices :
            (invocations[e1] = 1 /\ invocations[e2] = 1
                /\ responses[e1] = responses[e2]) => Local(e1) = Local(e2))

\* C22 witness: two invocations run at the same time, one has failed an
\* attempt and is retrying while the other waits for its first response
C22_Witness ==
    \E e1 \in Indices : \E e2 \in Indices :
        /\ pc[e1] = "request" /\ pc[e2] = "request"
        /\ Len(responses[e1]) = 1
        /\ retries[e1] = 1
        /\ responses[e2] = << >>
        /\ retries[e2] = 0

\* the order of the queries of a poll cycle: storage sum, ingestion lag,
\* grouped summary, event count, duration
QueryOrder == <<"storage_query", "ingestion_lag_query", "summarise_query",
                "event_count_query", "duration_query">>

\* c holds the logged results of the first n queries, in order
ResultsInOrder(c, n) ==
    /\ Len(c) = n
    /\ \A j \in 1 .. n : c[j].outcome /\ c[j].line.level = "INFO"
                         /\ c[j].line.msg = QueryOrder[j]

\* c is the log of a finished cycle: all five results, or the results of
\* the queries before the failed one and the error
CycleEnded(c) ==
    \/ ResultsInOrder(c, 5)
    \/ /\ c /= << >>
       /\ Len(c) <= 5
       /\ ~Last(c).outcome
       /\ ResultsInOrder(Front(c), Len(c) - 1)

\* C23: when query number q of a cycle is issued, the results of the
\* queries before it, in the fixed order, have been logged; the sleep is
\* entered only from the end of a cycle, succeeded or failed, every ended
\* cycle enters it, and it is left only into the first query of the next
\* cycle.
C23_OrderedCycleThenSleep ==
    /\ [](monPc = "query" => ResultsInOrder(cycleLog, qIdx - 1))
    /\ [](monPc = "sleep" => CycleEnded(cycleLog))
    /\ [](\A k \in 1 .. Len(cycles) : CycleEnded(cycles[k]))
    /\ [][(monPc = "query" /\ cycleLog' /= cycleLog /\ CycleEnded(cycleLog'))
            => monPc' = "sleep"]_vars
    /\ [][(monPc = "sleep" /\ monPc' /= "sleep")
            => (monPc' = "query" /\ qIdx' = 1 /\ cycleLog' = << >>
                /\ cycles' /= << >> /\ Last(cycles') = cycleLog)]_vars

\* C23 witness: the sleep after a complete cycle that followed a failed one
C23_Witness ==
    /\ monPc = "sleep"
    /\ ResultsInOrder(cycleLog, 5)
    /\ cycles /= << >>
    /\ ~Last(Last(cycles)).outcome

\* C24: every dispatch adds exactly one batch of at most B events and is
\* followed by exactly one pacing sleep, during which no batch is
\* dispatched; a run takes ceil(N/B) pacing sleeps, one after every batch,
\* the last included.
C24_OneBatchPerPacingSleep ==
    /\ [](pacing = Len(batches))
    /\ [](schedPc \in {"shutdown", "done"} => pacing = NumBatches)
    /\ [][batches' /= batches =>
            /\ schedPc = "loop" /\ schedPc' = "sleep"
            /\ Front(batches') = batches
            /\ Len(Last(batches')) <= BATCH_SIZE
            /\ pacing' = pacing + 1]_vars
    /\ [][schedPc = "sleep" => (batches' = batches /\ pacing' = pacing)]_vars

\* C24 witness: the pacing sleep after the last of two batches, while
\* events of the first batch are still queued or in flight
C24_Witness ==
    /\ schedPc = "sleep"
    /\ Len(batches) = 2
    /\ pacing = 2
    /\ BatchEnd(i) = NUM_EVENTS
    /\ \E e \in Pending : BatchOf(e) = 1

\* C25: for every index i the synthesized event has event_name gpu_time,
\* source web for even i and mobile for odd i,
\* bytes_transferred = 100 + (i mod 1000), duration_ms = 50 + (i mod 200),
\* status_code in {200, 300, 400} and test_group = group_(i mod 10).
C25_FieldValues ==
    \A k \in 1 .. Len(genCalls) :
        LET idx == genCalls[k].index
            ev == genCalls[k].event
        IN /\ ev.event_name \in {"gpu_time"}
           /\ ev.source = (IF idx % 2 = 0 THEN "web" ELSE "mobile")
           /\ ev.properties.bytes_transferred = 100 + (idx % 1000)
           /\ ev.properties.duration_ms = 50 + (idx % 200)
           /\ ev.properties.status_code \in {200, 300, 400}
           /\ ev.properties.test_group = <<"group_", idx % 10>>
           /\ ev.properties.bytes_transferred \in 100 .. 1099
           /\ ev.properties.duration_ms \in 50 .. 249

\* C25 witness: events generated for an index past every wrap point, for an
\* odd index and for an even index
C25_Witness ==
    /\ \E k \in 1 .. Len(genCalls) :
          genCalls[k].index > 1000 /\ genCalls[k].event.properties.bytes_transferred < 1000
    /\ \E k \in 1 .. Len(genCalls) : genCalls[k].event.source = "mobile"
    /\ \E k \in 1 .. Len(genCalls) : genCalls[k].event.source = "web"

\* the identifiers the endpoint has received in requests for event e
IdsSent(e) == {sent[e][j].event_id : j \in 1 .. Len(sent[e])}

\* C26: every request post_event makes for an event carries the event as it
\* was synthesized, identifier included, so all attempts for one event carry
\* one identifier, and no identifier is sent for two events.
C26_SameIdOnRetry ==
    /\ \A e \in Indices :
          /\ Len(sent[e]) = Attempts(e)
          /\ \A j \in 1 .. Len(sent[e]) : sent[e][j] = EventArg(e)
          /\ Cardinality(IdsSent(e)) <= 1
    /\ \A e1 \in Indices : \A e2 \in Indices :
          e1 /= e2 => IdsSent(e1) \cap IdsSent(e2) = {}

\* C26 witness: two events, each attempted twice
C26_Witness ==
    /\ NUM_EVENTS = 2
    /\ \A e \in Indices : Len(sent[e]) = 2 /\ Len(responses[e]) >= 1

\* the failed attempts among the answers h: raised, 429 or 500
Failures(h) == {j \in 1 .. Len(h) : IsFailure(h[j])}

\* C27: exceptions and retryable statuses draw on one retry budget and one
\* backoff: whatever the mix and order of failures, an event gets at most
\* MAX_RETRIES + 1 attempts, every failure counts one retry, and the delay
\* after the n-th failed attempt is INITIAL_BACKOFF * 2^(n-1).
C27_SharedBudget ==
    \A e \in Indices :
        LET h == responses[e] IN
        /\ Attempts(e) <= MAX_RETRIES + 1
        /\ Len(sleeps[e]) = Cardinality(Failures(h))
        /\ invocations[e] = 1 => retries[e] = Cardinality(Failures(h))
        /\ \A n \in 1 .. Len(sleeps[e]) :
              sleeps[e][n] = INITIAL_BACKOFF * Pow2(n - 1)

\* C27 witness: a retryable status followed by an exception, and an
\* exception followed by a retryable status
C27_Witness ==
    /\ \E e \in Indices : responses[e] = <<429, EXC>> /\ Len(sleeps[e]) = 2
    /\ \E e \in Indices : responses[e] = <<EXC, 500>> /\ Len(sleeps[e]) = 2

\* C28: a backoff sleep follows every failed attempt, the last one too: an
\* invocation that used up its retry budget has slept MAX_RETRIES + 1 times
\* when it returns False, and the number of sleeps taken is always the
\* number of failed attempts, never the number of retries made.
C28_SleepAfterLastFailure ==
    \A e \in Indices :
        LET h == responses[e] IN
        /\ (pc[e] = "returned" /\ Cardinality(Failures(h)) = MAX_RETRIES + 1)
              => /\ result[e] = "False"
                 /\ Len(sleeps[e]) = MAX_RETRIES + 1
                 /\ Len(sent[e]) = MAX_RETRIES + 1
        /\ (h /= << >> /\ IsFailure(Last(h))) => Len(sleeps[e]) = Len(h)

\* C28 witness: the retry budget used up on exceptions, with as many sleeps
\* as attempts
C28_Witness ==
    \E e \in Indices :
        /\ pc[e] = "returned"
        /\ AllAre(responses[e], EXC)
        /\ Len(responses[e]) = MAX_RETRIES + 1
        /\ Len(sleeps[e]) = Len(sent[e])

\* an accepted status (2xx), or a rejected one: a status that is neither
\* 2xx, nor 429, nor 5xx
IsTerminalStatus(s) ==
    /\ s \in Statuses
    /\ s \in 200 .. 299 \/ (s /= 429 /\ s \notin 500 .. 599)

\* C29: an attempt answered with an accepted or a rejected status is the
\* last attempt for its event: post_event has returned and no request
\* follows; and post_event returns True only when its last attempt was
\* answered 202.
C29_NoAttemptAfterTerminal ==
    \A e \in Indices :
        LET h == responses[e] IN
        /\ \A j \in 1 .. Len(h) :
              IsTerminalStatus(h[j]) =>
                  /\ j = Len(h)
                  /\ pc[e] = "returned"
                  /\ Len(sent[e]) = j
        /\ result[e] = "True" => (h /= << >> /\ Last(h) = ACCEPTED /\ pc[e] = "returned")
        /\ pc[e] = "returned" => (result[e] = "True" <=> Last(h) = ACCEPTED)

\* C29 witness: one event accepted and one rejected, each on its second
\* attempt, both returned
C29_Witness ==
    /\ \E e \in Indices : responses[e] = <<500, 202>> /\ result[e] = "True"
    /\ \E e \in Indices : responses[e] = <<EXC, 400>> /\ result[e] = "False"

\* the positions of the error lines in the cycle log c
ErrorsIn(c) == {j \in 1 .. Len(c) : c[j].line.level = "ERROR"}

\* query number j failed in the cycle with log c: the results of queries
\* 1 .. j-1 are logged in order, then one error line, and nothing else
FailedAt(c, j) ==
    /\ Len(c) = j
    /\ ErrorsIn(c) = {j}
    /\ ~c[j].outcome
    /\ \A q \in 1 .. (j - 1) : c[q].outcome /\ c[q].line = [level |-> "INFO", msg |-> QueryOrder[q]]

\* C30: when query number j of a cycle fails, the results of queries
\* 1 .. j-1 have been logged, one error line is logged, the cycle issues no
\* further query and logs nothing more, and the next cycle starts at the
\* first query.
C30_FailedCycleStops ==
    /\ [](\A k \in 1 .. Len(cycles) :
            ErrorsIn(cycles[k]) /= {} =>
                \E j \in 1 .. Len(Queries) : FailedAt(cycles[k], j))
    /\ [](ErrorsIn(cycleLog) /= {} =>
            (monPc = "sleep" /\ FailedAt(cycleLog, qIdx)))
    /\ [][(monPc = "query" /\ cycleLog' /= cycleLog /\ ErrorsIn(cycleLog') /= {})
            => (FailedAt(cycleLog', qIdx) /\ monPc' = "sleep" /\ qIdx' = qIdx)]_vars
    /\ [][ErrorsIn(cycleLog) /= {} =>
            \/ cycleLog' = cycleLog /\ qIdx' = qIdx
            \/ /\ cycleLog' = << >>
               /\ monPc' = "query"
               /\ qIdx' = 1
               /\ Last(cycles') = cycleLog]_vars

\* C30 witness: the third query of the last cycle failed and the next cycle
\* has logged the result of its first query
C30_Witness ==
    /\ cycles /= << >>
    /\ FailedAt(Last(cycles), 3)
    /\ monPc = "query"
    /\ qIdx = 2
    /\ Len(cycleLog) = 1
    /\ cycleLog[1].outcome

\* a step of seed_events_clickhouse, the pool or post_event
IngestStep ==
    \/ schedPc' /= schedPc
    \/ pc' /= pc
    \/ responses' /= responses

\* C31: get_client is called once, before the first cycle; while the
\* monitor polls, cycle after cycle and also after a failed cycle, it holds
\* that one open connection and never connects again; and a process that
\* runs the scheduler and the poster never has a connection.
C31_OneConnection ==
    /\ [](connects <= 1)
    /\ [](Polling => (connects = 1 /\ client = "open"))
    /\ []((monPc \in {"idle", "start"}) => (connects = 0 /\ cycles = << >> /\ cycleLog = << >>))
    /\ [][Polling => (client' = client /\ connects' = connects)]_vars
    /\ [](schedPc /= "idle" => (client = "none" /\ connects = 0))
    /\ [][IngestStep => (client' = client /\ connects' = connects)]_vars

\* C31 witness: the monitor is polling on its one connection after a failed
\* cycle and a complete one
C31_Witness ==
    /\ Polling
    /\ connects = 1
    /\ Len(cycles) >= 2
    /\ \E k \in 1 .. Len(cycles) : ~CycleSucceeded(cycles[k])
    /\ Last(cycles) = FullCycle

\* the scheduler (with its pool and poster) has been called
SchedulerRan == schedPc /= "idle"
\* the monitor has been called
MonitorRan == monPc /= "idle"

\* C32: main runs the scheduler only in mode ingest, which is also the
\* default, and the monitor only in mode query; never both in one process;
\* and a step of one component changes no state of the other.
C32_OneComponent ==
    /\ [](~(SchedulerRan /\ MonitorRan))
    /\ [](SchedulerRan => modeArg \in {"ingest", "absent"})
    /\ [](MonitorRan => modeArg = "query")
    /\ [][(schedPc = "idle" /\ monPc = "idle" /\ (schedPc' /= schedPc \/ monPc' /= monPc))
            => IF modeArg = "query" THEN MonitorRan' /\ ~SchedulerRan'
                                    ELSE SchedulerRan' /\ ~MonitorRan']_vars
    /\ [][IngestStep /\ SchedulerRan => UNCHANGED monVars]_vars
    /\ [][MonitorStep /\ MonitorRan => UNCHANGED <<schedVars, workQueue, pc, postVars>>]_vars

\* C32 witness: the monitor has finished a cycle in a process started in
\* query mode
C32_Witness ==
    /\ modeArg = "query"
    /\ MonitorRan
    /\ cycles /= << >>
    /\ ~SchedulerRan

\* the position in main of the step that calls fn
StepIndex(fn) == CHOOSE k \in 1 .. Len(Steps) : Steps[k].fn = fn

\* C33: a step whose API call is passed an identifier created by an earlier
\* step makes no call while that identifier is unset; whatever a step did
\* (called and succeeded, called and failed, skipped), main goes on with the
\* step that follows it in the fixed order, so the cleanup is reached; and a
\* cleanup step that made its delete call had its identifier set.
C33_GuardedStepsRunToCleanup ==
    /\ lastCall.called => lastCall.missing = {}
    /\ lastCall.fn /= "none" =>
          /\ sdkStep = StepIndex(lastCall.fn) + 1
          /\ (StepIndex(lastCall.fn) >= FirstCleanup /\ lastCall.called)
                => Steps[StepIndex(lastCall.fn)].args \subseteq ids
    /\ sdkStep > 0 => (lastCall.fn = "none" <=> sdkStep = 1)

\* line is among the log lines of dynamodb_replicate.py
Logged(line) == \E j \in 1 .. Len(ddbLog) : ddbLog[j] = line

\* the number of stored batches that hold row r
TimesInserted(r) ==
    Cardinality({k \in 1 .. Len(inserted) : inserted[k].lo <= r /\ r < inserted[k].hi})

\* C34: the stored batches are consecutive slices of at most 1000 rows in
\* file order; when the function returns every row is in exactly one
\* batch; after a failed insert the batches stored before stay stored, no
\* further batch is attempted, the error is logged and raised again, and the
\* entry point logs the error and never the success line.
C34_BatchedInsertStopsOnError ==
    /\ [](\A k \in 1 .. Len(inserted) :
            /\ inserted[k].lo = (k - 1) * 1000
            /\ inserted[k].hi = Min(k * 1000, csvRows)
            /\ inserted[k].hi - inserted[k].lo \in 1 .. 1000)
    /\ [](\A r \in 0 .. (csvRows - 1) : TimesInserted(r) <= 1)
    /\ [](Logged("Data ingestion completed successfully.") =>
            /\ ~Logged("Error during insertion")
            /\ ~Logged("An error occurred")
            /\ \A r \in 0 .. (csvRows - 1) : TimesInserted(r) = 1)
    /\ [](Logged("Error during insertion") =>
            /\ ddbPc \in {"raised", "done"}
            /\ ddbI = Len(inserted) * 1000
            /\ ddbI < csvRows
            /\ ddbPc = "done" => Last(ddbLog) = "An error occurred")
    /\ [][Logged("Error during insertion") =>
            (inserted' = inserted /\ ddbI' = ddbI /\ ddbPc' = "done")]_vars
    /\ [][inserted' /= inserted => Front(inserted') = inserted]_vars

\* C34 witness: the third batch failed after two stored ones and the entry
\* point has logged the error
C34_Witness ==
    /\ ddbPc = "done"
    /\ Len(inserted) = 2
    /\ csvRows > 3000
    /\ Logged("Error during insertion")
    /\ Last(ddbLog) = "An error occurred"

\* the completion the callback of submission s asked for has been dealt with:
\* run by the loop or refused by a closed loop
Handled(s) == sched[s] \in {"ran", "invalid_state", "refused"}

\* C35: the future of each submission is completed exactly once, with the
\* data when the SDK callback reported no error and with an exception when
\* it reported one, the completion being scheduled onto the event loop; the
\* summary query is issued only after both submissions completed with data.
C35_FutureCompletedOnceThenQuery ==
    /\ \A s \in Subs :
          /\ sched[s] /= "refused"
          /\ sched[s] /= "invalid_state"
          /\ (Handled(s) /\ cb[s] = "data") => fut[s] = "result"
          /\ (Handled(s) /\ cb[s] = "error") => fut[s] = "exception"
    /\ queried => \A s \in Subs : fut[s] = "result" /\ task[s] = "returned"

====
